---- MODULE Spec2Model ----
(***************************************************************************)
(* Nanoleaf Segments integration: the panel command batching and streaming *)
(* layer.  The model follows custom_components/nanoleaf_segments:          *)
(*   __init__.py  async_setup_entry, async_unload_entry, NanoleafAPI,      *)
(*                NanoleafDataUpdateCoordinator                            *)
(*   light.py     NanoleafSegmentLight and the SEGMENT_STATES store        *)
(*   group.py     NanoleafSegmentGroup and the GROUP_STATES store          *)
(* Every handler is one action; the outcome of each network call it makes  *)
(* is an input of the action.                                              *)
(***************************************************************************)
EXTENDS Integers, Sequences, FiniteSets, TLC

(***************************************************************************)
(* Bounds of the model.                                                    *)
(***************************************************************************)
\* largest number of line segments in a device layout
NumPanels == 4
\* entity and service commands handled in one run
MaxOps == 2
\* NanoleafAPI objects (sessions) created in one run
MaxSessions == 1
\* segments handed to create_groups_by_position on its own
MaxSegments == 4
\* group sizes handed to create_groups_by_position on its own
MaxGroupSize == 3
\* characters of a group_config string typed into the options form
MaxConfigLen == 3
\* panels of a mapping handed to the frame encoder on its own
MaxFramePanels == 3
\* per-panel turn_on / turn_off coroutines handled in one run of the event loop
MaxTasks == 2
\* refreshes of one coordinator followed on their own
MaxRefreshes == 3
\* items of a segment_colors mapping handed to the bulk service on its own
MaxBulkItems == 2
\* streaming sends of one session followed on their own
MaxSends == 3
\* panels of a mapping handed to a streaming send on its own
MaxStreamPanels == 2

(***************************************************************************)
(* Program constants.                                                      *)
(***************************************************************************)
SHAPE_TYPE_LINE_SEGMENT == 18
SHAPE_TYPE_CONTROLLER == 19
DEFAULT_GROUP_SIZE == 3
\* struct.pack 'H' and 'B' ranges
MaxU16 == 65535
MaxU8 == 255
\* transition of a smooth streaming frame, in tenths of a second
SmoothTransTime == 2
\* timeouts of the control-plane writes, in milliseconds
PanelWriteTimeout == 5000
BatchWriteTimeout == 500

(***************************************************************************)
(* Input domains.                                                          *)
(***************************************************************************)
White == <<255, 255, 255>>
Black == <<0, 0, 0>>
\* colours a caller passes as ATTR_RGB_COLOR or in segment_colors
Colors == {<<51, 102, 204>>}
\* values a caller passes as ATTR_BRIGHTNESS
Brightnesses == {155}
\* transitions a caller passes, in milliseconds (ATTR_TRANSITION is in seconds)
Transitions == {1550}

\* the keyword arguments of a service call: the names given, and their values
\* (a name not given carries a fixed filler that nothing reads)
MkKwargs(given, brightness, rgb_color, transition) ==
    [given |-> given,
     brightness |-> IF "brightness" \in given THEN brightness ELSE 0,
     rgb_color |-> IF "rgb_color" \in given THEN rgb_color ELSE <<>>,
     transition |-> IF "transition" \in given THEN transition ELSE 0]

TurnOnKwargs ==
    {MkKwargs(given, b, c, t) :
        given \in SUBSET {"brightness", "rgb_color", "transition"},
        b \in Brightnesses, c \in Colors, t \in Transitions}

TurnOffKwargs ==
    {MkKwargs(given, 0, <<>>, t) : given \in SUBSET {"transition"}, t \in Transitions}

\* kwargs.get(ATTR_TRANSITION, 0)
TransitionOf(kwargs) ==
    IF "transition" \in kwargs.given THEN kwargs.transition ELSE 0

\* segment_colors of the bulk service for a layout of n segments: items
\* <<index, rgb>> in dict order, with in-range, out-of-range and negative
\* indices
BulkInputs(n) ==
    {<<>>,
     <<<<0, <<255, 0, 0>>>>>>,
     <<<<n - 1, <<255, 0, 0>>>>, <<0, <<51, 102, 204>>>>>>,
     <<<<0, <<255, 0, 0>>>>, <<n, <<51, 102, 204>>>>>>,
     <<<<n, <<255, 0, 0>>>>>>,
     <<<<0 - 1, <<255, 0, 0>>>>, <<n - 1, <<51, 102, 204>>>>>>,
     <<<<0 - (n + 1), <<255, 0, 0>>>>>>}

\* outcomes of requests.put / requests.get: success, an HTTP error status,
\* a timeout, a connection error
HttpOutcomes == {"204", "http_error", "timeout", "conn_error"}
\* outcomes of the reads get_state and get_layout (get, raise_for_status, json)
ReadOutcomes == {"200", "http_error", "timeout"}
\* outcomes of socket.sendto
UdpOutcomes == {"sent", "oserror"}
\* outcomes of socket.socket() followed by setblocking(False)
SocketOutcomes == {"ok", "create_fails", "setblocking_fails"}
\* outcomes of the device-info GET of the negotiation: a response whose body
\* is JSON, a response whose body is not JSON, or a transport exception
InfoOutcomes == {"json", "not_json", "error"}

(***************************************************************************)
(* Generic helpers.                                                        *)
(***************************************************************************)
RECURSIVE Concat(_)
\* " ".join(parts), on token sequences
Concat(parts) ==
    IF parts = <<>> THEN <<>> ELSE Head(parts) \o Concat(Tail(parts))

Min(a, b) == IF a <= b THEN a ELSE b

(***************************************************************************)
(* The device layout: positionData as the device returns it.               *)
(***************************************************************************)
\* device-assigned panel ids; the wide id does not fit 16 bits
PanelIdAt(i, wide) == IF wide /\ i = 1 THEN 70000 + i ELSE 100 + 7 * i
\* angle around the centroid in hundredths of a degree (round(raw, 2))
AngleAt(i) == ((i * 20000) % 36000)

PositionData(n, wide) ==
    [i \in 1..n |-> [panelId |-> PanelIdAt(i, wide),
                     angle_deg |-> AngleAt(i),
                     shapeType |-> SHAPE_TYPE_LINE_SEGMENT]]
    \o <<[panelId |-> 0, angle_deg |-> 0, shapeType |-> SHAPE_TYPE_CONTROLLER]>>

DeviceLayouts ==
    {PositionData(NumPanels, wide) : wide \in BOOLEAN}

(***************************************************************************)
(* NanoleafAPI.get_all_segments and create_groups_by_position.             *)
(***************************************************************************)
\* the line segments of positionData, in layout order
GetAllSegments(position_data) ==
    SelectSeq(position_data, LAMBDA p : p.shapeType = SHAPE_TYPE_LINE_SEGMENT)

RECURSIVE InsertByAngle_Unstable(_, _)
\* variant: an equal angle goes in front of the ones already placed
InsertByAngle_Unstable(sorted, s) ==
    IF sorted = <<>> THEN <<s>>
    ELSE IF Head(sorted).angle_deg < s.angle_deg
         THEN <<Head(sorted)>> \o InsertByAngle_Unstable(Tail(sorted), s)
         ELSE <<s>> \o sorted

RECURSIVE InsertByAngle(_, _)
\* insert s after every element whose angle is <= its own (stable)
InsertByAngle(sorted, s) ==
    IF sorted = <<>> THEN <<s>>
    ELSE IF Head(sorted).angle_deg <= s.angle_deg
         THEN <<Head(sorted)>> \o InsertByAngle(Tail(sorted), s)
         ELSE <<s>> \o sorted

RECURSIVE SortedByAngle(_)
\* sorted(segments, key=angle_deg): Python's sort is stable
SortedByAngle(segments) ==
    IF segments = <<>> THEN <<>>
    ELSE InsertByAngle(SortedByAngle(SubSeq(segments, 1, Len(segments) - 1)),
                       segments[Len(segments)])

RECURSIVE Chunks(_, _)
\* for i in range(0, len(s), group_size): s[i:i + group_size]
Chunks(s, group_size) ==
    IF s = <<>> THEN <<>>
    ELSE <<SubSeq(s, 1, Min(group_size, Len(s)))>>
         \o Chunks(SubSeq(s, Min(group_size, Len(s)) + 1, Len(s)), group_size)

create_groups_by_position(segments, group_size) ==
    Chunks(SortedByAngle(segments), group_size)

\* NanoleafSegmentGroup._panel_ids of every group entity
GroupPanelIds(segments) ==
    LET groups == create_groups_by_position(segments, DEFAULT_GROUP_SIZE)
    IN  [g \in 1..Len(groups) |->
            [k \in 1..Len(groups[g]) |-> groups[g][k].panelId]]

(***************************************************************************)
(* The commanded-state stores SEGMENT_STATES and GROUP_STATES.  A store is *)
(* a function from the keys it holds to state records.                     *)
(***************************************************************************)
DefaultState == [is_on |-> TRUE, brightness |-> 255, rgb_color |-> White]

\* the _segment_state / _group_state property: dict.get(key, default)
StateOf(store, key) ==
    IF key \in DOMAIN store THEN store[key] ELSE DefaultState

\* variant: __init__ writes the default whatever the store holds
InitState_Resets(store, key) ==
    [k \in DOMAIN store \cup {key} |->
        IF k = key THEN DefaultState ELSE store[k]]

\* __init__: insert the default only for a key the store does not hold
InitState(store, key) ==
    IF key \in DOMAIN store THEN store
    ELSE [k \in DOMAIN store \cup {key} |->
            IF k = key THEN DefaultState ELSE store[k]]

RECURSIVE InitStates(_, _)
InitStates(store, keys) ==
    IF keys = <<>> THEN store
    ELSE InitStates(InitState(store, Head(keys)), Tail(keys))

\* async_turn_on: the fields written on the dict the property returned
\* (`ATTR_BRIGHTNESS in kwargs` is `"brightness" \in kwargs.given`)
TurnedOn(state, kwargs) ==
    [is_on |-> TRUE,
     brightness |-> IF "brightness" \in kwargs.given
                    THEN kwargs.brightness ELSE state.brightness,
     rgb_color |-> IF "rgb_color" \in kwargs.given
                   THEN kwargs.rgb_color ELSE state.rgb_color]

\* async_turn_off
\* variant: turning off also puts colour and brightness back to the default
TurnedOff_ResetsColor(state) ==
    [is_on |-> FALSE, brightness |-> 255, rgb_color |-> White]

TurnedOff(state) == [state EXCEPT !.is_on = FALSE]

\* variant: one dict is shared by every key of the store
WriteState_AllKeys(store, key, state) == [k \in DOMAIN store |-> state]

\* variant: the dict written is always a temporary copy
WriteState_Temporary(store, key, state) == store

\* a write through the property reaches the store only if the key is held:
\* otherwise the dict written is the temporary default
WriteState(store, key, state) ==
    IF key \in DOMAIN store THEN [store EXCEPT ![key] = state] ELSE store

(***************************************************************************)
(* Brightness scaling: int(channel * (brightness / 255)) in IEEE doubles.  *)
(***************************************************************************)
\* the (channel, brightness) pairs of 0..255 x 0..255 where the double
\* product falls just below the exact integer quotient
FloatShort ==
    {<<51, 155>>, <<75, 187>>, <<85, 147>>, <<85, 171>>, <<102, 155>>,
     <<150, 187>>, <<153, 155>>, <<153, 195>>, <<165, 187>>, <<170, 147>>,
     <<170, 171>>, <<204, 155>>}

\* variant: the factor is brightness / 256, computed with a shift
Scale_ShiftBy8(channel, brightness) == (channel * brightness) \div 256

Scale(channel, brightness) ==
    IF <<channel, brightness>> \in FloatShort
    THEN (channel * brightness) \div 255 - 1
    ELSE (channel * brightness) \div 255

\* variant: the stored colour is scaled whether the state is on or off
VisibleColor_IgnoresIsOn(state) ==
    <<Scale(state.rgb_color[1], state.brightness),
      Scale(state.rgb_color[2], state.brightness),
      Scale(state.rgb_color[3], state.brightness)>>

\* the colour sent for a state: scaled when on, black when off
VisibleColor(state) ==
    IF state.is_on
    THEN <<Scale(state.rgb_color[1], state.brightness),
           Scale(state.rgb_color[2], state.brightness),
           Scale(state.rgb_color[3], state.brightness)>>
    ELSE Black

\* int(transition * 10), transition in seconds given here in milliseconds
TransitionTime(transition_ms) == (transition_ms * 10) \div 1000

(***************************************************************************)
(* Python dicts as sequences of <<key, value>> in insertion order.         *)
(***************************************************************************)
DictKeys(d) == {d[i][1] : i \in 1..Len(d)}

\* d[key] = value: overwrite in place, or append a new key
DictPut(d, key, value) ==
    IF key \in DictKeys(d)
    THEN [i \in 1..Len(d) |-> IF d[i][1] = key THEN <<key, value>> ELSE d[i]]
    ELSE Append(d, <<key, value>>)

DictGet(d, key) == d[CHOOSE i \in 1..Len(d) : d[i][1] = key][2]

(***************************************************************************)
(* The two wire encodings.                                                 *)
(***************************************************************************)
\* variant: the entry leaves the white channel out
AnimPart_NoWhite(panel_id, rgb, transition_time) ==
    <<panel_id, 1, rgb[1], rgb[2], rgb[3], transition_time>>

\* f"{panel_id} 1 {r} {g} {b} 0 {transition_time}" as its tokens
AnimPart(panel_id, rgb, transition_time) ==
    <<panel_id, 1, rgb[1], rgb[2], rgb[3], 0, transition_time>>

\* f"{num_panels} " + " ".join(anim_parts)
AnimData(num_panels, anim_parts) == <<num_panels>> \o Concat(anim_parts)

\* set_multiple_panels: one part per dict item
BatchAnimData(panel_colors, transition_time) ==
    AnimData(Len(panel_colors),
             [i \in 1..Len(panel_colors) |->
                AnimPart(panel_colors[i][1], panel_colors[i][2], transition_time)])

\* variant: the two bytes in little-endian order ('<H')
PackH_LittleEndian(v) ==
    IF v \in 0..MaxU16 THEN [ok |-> TRUE, bytes |-> <<v % 256, v \div 256>>]
    ELSE [ok |-> FALSE, bytes |-> <<>>]

\* struct.pack of one unsigned big-endian field; ok is FALSE on struct.error
PackH(v) ==
    IF v \in 0..MaxU16 THEN [ok |-> TRUE, bytes |-> <<v \div 256, v % 256>>]
    ELSE [ok |-> FALSE, bytes |-> <<>>]

\* variant: a value that does not fit is packed modulo 256
PackB_Wraps(v) == [ok |-> TRUE, bytes |-> <<v % (MaxU8 + 1)>>]

PackB(v) ==
    IF v \in 0..MaxU8 THEN [ok |-> TRUE, bytes |-> <<v>>]
    ELSE [ok |-> FALSE, bytes |-> <<>>]

\* a pack of several fields raises when one of them does
PackAll(fields) ==
    IF \A i \in 1..Len(fields) : fields[i].ok
    THEN [ok |-> TRUE, bytes |-> Concat([i \in 1..Len(fields) |-> fields[i].bytes])]
    ELSE [ok |-> FALSE, bytes |-> <<>>]

\* struct.pack('>HBBBBH', panel_id, r, g, b, 0, trans_time)
PackPanel(panel_id, rgb, trans_time) ==
    PackAll(<<PackH(panel_id), PackB(rgb[1]), PackB(rgb[2]), PackB(rgb[3]),
              PackB(0), PackH(trans_time)>>)

\* trans_time = 2 if smooth else 0
TransTime(smooth) == IF smooth THEN SmoothTransTime ELSE 0

\* the whole streaming frame: the count, then one packed entry per dict item
UdpPacket(panel_colors, smooth) ==
    PackAll(<<PackH(Len(panel_colors))>>
            \o [i \in 1..Len(panel_colors) |->
                  PackPanel(panel_colors[i][1], panel_colors[i][2],
                            TransTime(smooth))])

(***************************************************************************)
(* Exceptions.  An outcome of a network call is mapped to the exception    *)
(* the call raises, "none" when it returns.                                *)
(***************************************************************************)
\* requests.put / requests.get: raises on a timeout or a connection error
RequestException(outcome) ==
    CASE outcome = "timeout" -> "Timeout"
      [] outcome = "conn_error" -> "ConnectionError"
      [] OTHER -> "none"

\* response.raise_for_status(): raises on an HTTP error status
RaiseForStatus(outcome) ==
    IF outcome = "http_error" THEN "HTTPError" ELSE "none"

\* the classes an `except Exception` clause catches
IsException(exc) ==
    exc \in {"Timeout", "ConnectionError", "HTTPError", "JSONDecodeError",
             "OSError", "struct.error", "IndexError"}

(***************************************************************************)
(* NanoleafAPI.set_multiple_panels: the reliable path.                     *)
(***************************************************************************)
\* one control-plane write of a custom animation
EffectWrite(anim_data, timeout, outcome, thread) ==
    [animData |-> anim_data, timeout |-> timeout, outcome |-> outcome,
     thread |-> thread]

\* variant: only the timeout is caught
SetMultiplePanelsRaises_TimeoutOnly(outcome) ==
    IF RequestException(outcome) = "Timeout" THEN "none"
    ELSE RequestException(outcome)

\* the exception that leaves set_multiple_panels: `except Timeout: pass`
\* and `except Exception: pass` around the put, no raise_for_status
SetMultiplePanelsRaises(outcome) ==
    LET exc == RequestException(outcome)
    IN  IF exc = "Timeout" THEN "none"
        ELSE IF IsException(exc) THEN "none"
        ELSE exc

SetMultiplePanels(panel_colors, transition_time, outcome, thread) ==
    [udp |-> <<>>,
     http |-> <<EffectWrite(BatchAnimData(panel_colors, transition_time),
                            BatchWriteTimeout, outcome, thread)>>,
     raises |-> SetMultiplePanelsRaises(outcome)]

(***************************************************************************)
(* NanoleafAPI.set_multiple_panels_udp: the streaming path.                *)
(***************************************************************************)
\* socket.sendto
SendtoException(udp_outcome) ==
    IF udp_outcome = "oserror" THEN "OSError" ELSE "none"

\* variant: the guard looks at the socket only
StreamingUsable_SocketOnly(enabled, has_socket) == has_socket

\* the guard of line 209
StreamingUsable(enabled, has_socket) == enabled /\ has_socket

\* variant: a failed encode or send is logged and not sent again
SetMultiplePanelsUdp_NoFallback(enabled, has_socket, panel_colors, smooth, udp_outcome, http_outcome, thread) ==
    IF ~(enabled /\ has_socket)
    THEN SetMultiplePanels(panel_colors, 0, http_outcome, thread)
    ELSE LET packet == UdpPacket(panel_colors, smooth)
         IN  [udp |-> IF packet.ok
                      THEN <<[packet |-> packet.bytes, outcome |-> udp_outcome]>>
                      ELSE <<>>,
              http |-> <<>>, raises |-> "none"]

SetMultiplePanelsUdp(enabled, has_socket, panel_colors, smooth, udp_outcome, http_outcome, thread) ==
    IF ~StreamingUsable(enabled, has_socket)
    THEN SetMultiplePanels(panel_colors, 0, http_outcome, thread)
    ELSE LET packet == UdpPacket(panel_colors, smooth)
             attempt == IF packet.ok
                        THEN <<[packet |-> packet.bytes, outcome |-> udp_outcome]>>
                        ELSE <<>>
             exc == IF ~packet.ok THEN "struct.error"
                    ELSE SendtoException(udp_outcome)
         IN  IF exc = "none"
             THEN [udp |-> attempt, http |-> <<>>, raises |-> "none"]
             ELSE IF IsException(exc)
             THEN [SetMultiplePanels(panel_colors, 0, http_outcome, thread)
                     EXCEPT !.udp = attempt]
             ELSE [udp |-> attempt, http |-> <<>>, raises |-> exc]

\* variant: a failed datagram turns streaming off for the session
ApiAfterSend_DisablesOnFailure(api_before, sent) ==
    IF sent.udp # <<>> /\ sent.http # <<>>
    THEN [api_before EXCEPT !.external_control_enabled = FALSE]
    ELSE api_before

\* variant: a send turns streaming back on whenever a socket exists
ApiAfterSend_ReEnables(api_before, sent) ==
    [api_before EXCEPT !.external_control_enabled = api_before.udp_socket]

\* the session fields after a send: set_multiple_panels_udp assigns neither
\* _external_control_enabled nor _udp_socket, on any path
ApiAfterSend(api_before, sent) == api_before

(***************************************************************************)
(* NanoleafAPI.enable_external_control: the negotiation.                   *)
(***************************************************************************)
\* the exception raised inside the try block, "none" when every step passes
NegotiationException(put_outcome, info_outcome, socket_outcome) ==
    IF RequestException(put_outcome) # "none" THEN RequestException(put_outcome)
    ELSE IF RaiseForStatus(put_outcome) # "none" THEN RaiseForStatus(put_outcome)
    ELSE IF info_outcome = "error" THEN "ConnectionError"
    ELSE IF info_outcome = "not_json" THEN "JSONDecodeError"
    ELSE IF socket_outcome # "ok" THEN "OSError"
    ELSE "none"

\* the step that raised: "put", "info", "socket", or "none"
FailedStep(put_outcome, info_outcome, socket_outcome) ==
    IF RequestException(put_outcome) # "none"
       \/ RaiseForStatus(put_outcome) # "none" THEN "put"
    ELSE IF info_outcome # "json" THEN "info"
    ELSE IF socket_outcome # "ok" THEN "socket"
    ELSE "none"

\* variant: the except block clears the flag and raises again
EnableExternalControl_Reraises(put_outcome, info_outcome, socket_outcome) ==
    LET exc == NegotiationException(put_outcome, info_outcome, socket_outcome)
    IN  [external_control_enabled |-> exc = "none",
         udp_socket |-> exc = "none",
         raises |-> exc]

\* the API object after the call: `except Exception` clears the flag and
\* returns False; _udp_socket is assigned as soon as socket.socket() returns
EnableExternalControl(put_outcome, info_outcome, socket_outcome) ==
    LET exc == NegotiationException(put_outcome, info_outcome, socket_outcome)
        failed == FailedStep(put_outcome, info_outcome, socket_outcome)
    IN  [external_control_enabled |-> exc = "none",
         udp_socket |-> exc = "none"
                        \/ (failed = "socket"
                            /\ socket_outcome = "setblocking_fails"),
         raises |-> IF IsException(exc) THEN "none" ELSE exc]

(***************************************************************************)
(* NanoleafSegmentLight._async_set_panel_color: the per-panel snapshot.    *)
(***************************************************************************)
\* variant: the panels not targeted are written white at full brightness
PanelAnimPart_OthersWhite(store, panel_id, seg_panel_id, transition_time) ==
    IF seg_panel_id = panel_id
    THEN AnimPart(seg_panel_id, VisibleColor(StateOf(store, panel_id)),
                  transition_time)
    ELSE AnimPart(seg_panel_id, White, transition_time)

\* the anim part of one segment of the layout
PanelAnimPart(store, panel_id, seg_panel_id, transition_time) ==
    IF seg_panel_id = panel_id
    THEN AnimPart(seg_panel_id, VisibleColor(StateOf(store, panel_id)),
                  transition_time)
    ELSE AnimPart(seg_panel_id, VisibleColor(StateOf(store, seg_panel_id)),
                  transition_time)

PanelAnimData(store, panel_id, all_segments, transition_time) ==
    AnimData(Len(all_segments),
             [i \in 1..Len(all_segments) |->
                PanelAnimPart(store, panel_id, all_segments[i].panelId,
                              transition_time)])

\* variant: no try block around the send
SetPanelColorRaises_Propagates(outcome) == RequestException(outcome)

\* the exception that leaves the method: `except Exception` logs it
SetPanelColorRaises(outcome) ==
    LET exc == RequestException(outcome)
    IN  IF IsException(exc) THEN "none" ELSE exc

\* _send_effect runs in the executor
SetPanelColor(store, panel_id, all_segments, transition_ms, outcome) ==
    [udp |-> <<>>,
     http |-> <<EffectWrite(PanelAnimData(store, panel_id, all_segments,
                                          TransitionTime(transition_ms)),
                            PanelWriteTimeout, outcome, "executor")>>,
     raises |-> SetPanelColorRaises(outcome)]

(***************************************************************************)
(* NanoleafSegmentGroup._async_set_group_color.                            *)
(***************************************************************************)
RECURSIVE GroupPanelColors(_, _, _)
\* for panel_id in self._panel_ids: panel_colors[panel_id] = (r, g, b)
GroupPanelColors(panel_ids, rgb, acc) ==
    IF panel_ids = <<>> THEN acc
    ELSE GroupPanelColors(Tail(panel_ids), rgb, DictPut(acc, Head(panel_ids), rgb))

\* the direct call on the event loop; only if it raises is _send_batch
\* scheduled on the executor, and whatever that raises is logged
SetGroupColor(state, panel_ids, enabled, has_socket, udp_outcome, http_outcome) ==
    LET panel_colors == GroupPanelColors(panel_ids, VisibleColor(state), <<>>)
        direct == SetMultiplePanelsUdp(enabled, has_socket, panel_colors, TRUE,
                                       udp_outcome, http_outcome, "loop")
        again == SetMultiplePanelsUdp(enabled, has_socket, panel_colors, TRUE,
                                      udp_outcome, http_outcome, "executor")
    IN  IF direct.raises = "none" THEN direct
        ELSE IF IsException(direct.raises)
        THEN [udp |-> direct.udp \o again.udp, http |-> direct.http \o again.http,
              raises |-> "none"]
        ELSE direct

(***************************************************************************)
(* handle_set_multiple_segments: the bulk service.                         *)
(***************************************************************************)
\* segments[idx] for a Python index that passed `idx < len(segments)`
PyIndex(segments, idx) ==
    IF idx >= 0 THEN [ok |-> TRUE, at |-> idx + 1]
    ELSE IF idx >= 0 - Len(segments) THEN [ok |-> TRUE, at |-> Len(segments) + idx + 1]
    ELSE [ok |-> FALSE, at |-> 0]

RECURSIVE BulkPanelColors(_, _, _)
\* the loop over segment_colors.items(); ok is FALSE on an IndexError
BulkPanelColors(items, segments, acc) ==
    IF items = <<>> THEN [ok |-> TRUE, panel_colors |-> acc]
    ELSE LET idx == Head(items)[1]
             rgb == Head(items)[2]
         IN  IF idx < Len(segments)
             THEN IF PyIndex(segments, idx).ok
                  THEN BulkPanelColors(
                           Tail(items), segments,
                           DictPut(acc, segments[PyIndex(segments, idx).at].panelId, rgb))
                  ELSE [ok |-> FALSE, panel_colors |-> acc]
             ELSE BulkPanelColors(Tail(items), segments, acc)

HandleSetMultipleSegments(items, transition_ms, segments, outcome) ==
    LET built == BulkPanelColors(items, segments, <<>>)
    IN  IF built.ok
        THEN SetMultiplePanels(built.panel_colors, TransitionTime(transition_ms),
                               outcome, "executor")
        ELSE [udp |-> <<>>, http |-> <<>>, raises |-> "IndexError"]

(***************************************************************************)
(* NanoleafDataUpdateCoordinator._async_update_data.                       *)
(***************************************************************************)
\* api.get_state / api.get_layout: get, raise_for_status, json
ReadFails(outcome) ==
    RequestException(outcome) # "none" \/ RaiseForStatus(outcome) # "none"

\* variant: every refresh fetches the segments again
UpdateData_Refetches(coordinator, position_data, state_outcome, layout_outcome) ==
    IF ReadFails(state_outcome) \/ ReadFails(layout_outcome)
    THEN [coordinator EXCEPT !.last_update_success = FALSE]
    ELSE [has_segments |-> TRUE,
          segments |-> GetAllSegments(position_data),
          data |-> GetAllSegments(position_data),
          last_update_success |-> TRUE]

\* one refresh of a coordinator; a failed refresh (UpdateFailed) leaves
\* data and _segments as they were
UpdateData(coordinator, position_data, state_outcome, layout_outcome) ==
    IF ReadFails(state_outcome)
    THEN [coordinator EXCEPT !.last_update_success = FALSE]
    ELSE IF coordinator.has_segments
    THEN [coordinator EXCEPT !.last_update_success = TRUE,
                             !.data = coordinator.segments]
    ELSE IF ReadFails(layout_outcome)
    THEN [coordinator EXCEPT !.last_update_success = FALSE]
    ELSE [has_segments |-> TRUE,
          segments |-> GetAllSegments(position_data),
          data |-> GetAllSegments(position_data),
          last_update_success |-> TRUE]

\* the reads a refresh issues: the layout is requested only while the
\* coordinator has no _segments attribute
UpdateReads(coordinator, state_outcome) ==
    IF ReadFails(state_outcome) \/ coordinator.has_segments
    THEN <<"state">>
    ELSE <<"state", "layout">>

\* NanoleafDataUpdateCoordinator.__init__
NewCoordinator ==
    [has_segments |-> FALSE, segments |-> <<>>, data |-> <<>>,
     last_update_success |-> TRUE]

(***************************************************************************)
(* State.                                                                  *)
(***************************************************************************)
VARIABLES
    device_layout,       \* positionData of the device
    setup,               \* config entry: "idle", "ready" or "not_ready"
    session,             \* number of NanoleafAPI objects created so far
    api,                 \* _external_control_enabled and _udp_socket
    negotiation,         \* history: mode-switch writes of this session, a step failed
    hass_data,           \* hass.data[DOMAIN] holds the entry's coordinator
    service_registered,  \* set_multiple_segments is registered
    entities_added,      \* the light platform's entities exist
    coordinator,         \* the coordinator the service closure and entities use
    group_panel_ids,     \* _panel_ids of the group entities, by index + 1
    SEGMENT_STATES,      \* light.SEGMENT_STATES, keyed by panel id
    GROUP_STATES,        \* group.GROUP_STATES, keyed by group index
    last,                \* history: the handler that ran last and what it sent
    commanded,           \* history: last colour any command targeted at a panel
    ops,                 \* commands handled so far
    entry_options,       \* entry.options: the stored manual groups, if any
    call,                \* a function applied on its own: its arguments and result
    loop                 \* turn_on / turn_off coroutines suspended at their await

vars == <<device_layout, setup, session, api, negotiation, hass_data,
          service_registered, entities_added, coordinator, group_panel_ids,
          SEGMENT_STATES, GROUP_STATES, last, commanded, ops,
          entry_options, call, loop>>

NoKwargs == MkKwargs({}, 0, <<>>, 0)

\* the record of a handler that sends no colour command
NoCommand(kind) ==
    [kind |-> kind, session |-> 0, target |-> 0, turn_on |-> FALSE,
     kwargs |-> NoKwargs, panel_colors |-> <<>>, udp |-> <<>>, http |-> <<>>,
     raises |-> "none", streaming |-> FALSE, reads |-> <<>>, cause |-> "none"]

\* entry.options of an entry whose options flow never completed
NoOptions == [given |-> FALSE, manual_groups |-> <<>>]

\* no function is applied on its own
NoCall == [fn |-> "none", done |-> TRUE]

\* no coroutine is suspended, no job is in the executor
NoLoop == [tasks |-> <<>>, received |-> <<>>]

\* NanoleafAPI.__init__
NewApi == [external_control_enabled |-> FALSE, udp_socket |-> FALSE]

PanelIds(position_data) ==
    {GetAllSegments(position_data)[i].panelId :
        i \in 1..Len(GetAllSegments(position_data))}

Init ==
    /\ device_layout \in DeviceLayouts
    /\ setup = "idle"
    /\ session = 0
    /\ api = NewApi
    /\ negotiation = [attempts |-> 0, failed |-> FALSE]
    /\ hass_data = FALSE
    /\ service_registered = FALSE
    /\ entities_added = FALSE
    /\ coordinator = NewCoordinator
    /\ group_panel_ids = <<>>
    /\ SEGMENT_STATES = <<>>
    /\ GROUP_STATES = <<>>
    /\ last = NoCommand("none")
    /\ commanded = [id \in PanelIds(device_layout) |-> <<>>]
    /\ ops = 0
    /\ entry_options = NoOptions
    /\ call = NoCall
    /\ loop = NoLoop

(***************************************************************************)
(* async_setup_entry, with light.async_setup_entry as forwarded to.        *)
(***************************************************************************)
\* variant: a failed layout fetch is logged and setup goes on
SetupEntry_LayoutFailureLogged(position_data, layout_outcome, put_outcome, info_outcome, socket_outcome, state_outcome, segments_outcome) ==
    LET negotiated == EnableExternalControl(put_outcome, info_outcome,
                                            socket_outcome)
        refreshed == UpdateData(NewCoordinator, position_data, state_outcome,
                                segments_outcome)
    IN  [result |-> IF refreshed.last_update_success THEN "ready" ELSE "not_ready",
         cause |-> IF ReadFails(layout_outcome) THEN "layout"
                   ELSE IF refreshed.last_update_success THEN "none"
                   ELSE "first_refresh",
         api |-> [external_control_enabled |-> negotiated.external_control_enabled,
                  udp_socket |-> negotiated.udp_socket],
         attempts |-> 1,
         failed_step |-> FailedStep(put_outcome, info_outcome, socket_outcome),
         coordinator |-> refreshed]

\* the entry after one run of async_setup_entry; not_ready is
\* ConfigEntryNotReady, from the try block or from the first refresh
SetupEntry(position_data, layout_outcome, put_outcome, info_outcome, socket_outcome, state_outcome, segments_outcome) ==
    LET negotiated == EnableExternalControl(put_outcome, info_outcome,
                                            socket_outcome)
        refreshed == UpdateData(NewCoordinator, position_data, state_outcome,
                                segments_outcome)
    IN  IF ReadFails(layout_outcome)
        THEN [result |-> "not_ready", cause |-> "layout", api |-> NewApi,
              attempts |-> 0, failed_step |-> "none",
              coordinator |-> NewCoordinator]
        ELSE IF negotiated.raises # "none"
        THEN [result |-> "not_ready", cause |-> "negotiation",
              api |-> [external_control_enabled |-> negotiated.external_control_enabled,
                       udp_socket |-> negotiated.udp_socket],
              attempts |-> 1,
              failed_step |-> FailedStep(put_outcome, info_outcome, socket_outcome),
              coordinator |-> NewCoordinator]
        ELSE [result |-> IF refreshed.last_update_success
                         THEN "ready" ELSE "not_ready",
              cause |-> IF refreshed.last_update_success
                        THEN "none" ELSE "first_refresh",
              api |-> [external_control_enabled |-> negotiated.external_control_enabled,
                       udp_socket |-> negotiated.udp_socket],
              attempts |-> 1,
              failed_step |-> FailedStep(put_outcome, info_outcome, socket_outcome),
              coordinator |-> refreshed]

\* the keys of the entities the platform creates
SegmentKeys(segments) == [i \in 1..Len(segments) |-> segments[i].panelId]
GroupKeys(groups) == [g \in 1..Len(groups) |-> g - 1]

AsyncSetupEntry ==
    /\ setup \in {"idle", "not_ready"}
    /\ session < MaxSessions
    /\ \E layout_outcome \in ReadOutcomes, put_outcome \in HttpOutcomes,
          info_outcome \in InfoOutcomes, socket_outcome \in SocketOutcomes,
          state_outcome \in ReadOutcomes, segments_outcome \in ReadOutcomes :
        LET done == SetupEntry(device_layout, layout_outcome, put_outcome,
                               info_outcome, socket_outcome, state_outcome,
                               segments_outcome)
        IN  /\ session' = session + 1
            /\ api' = done.api
            /\ negotiation' = [attempts |-> done.attempts,
                               failed |-> done.failed_step # "none"]
            /\ setup' = done.result
            /\ IF done.result = "ready"
               THEN /\ hass_data' = TRUE
                    /\ service_registered' = TRUE
                    /\ entities_added' = TRUE
                    /\ coordinator' = done.coordinator
                    /\ group_panel_ids' = GroupPanelIds(done.coordinator.data)
                    /\ SEGMENT_STATES' =
                         InitStates(SEGMENT_STATES, SegmentKeys(done.coordinator.data))
                    /\ GROUP_STATES' =
                         InitStates(GROUP_STATES,
                                    GroupKeys(GroupPanelIds(done.coordinator.data)))
               ELSE UNCHANGED <<hass_data, service_registered, entities_added,
                                coordinator, group_panel_ids, SEGMENT_STATES,
                                GROUP_STATES>>
            /\ last' = [NoCommand("setup") EXCEPT
                           !.session = session + 1,
                           !.cause = done.cause,
                           !.raises = IF done.result = "ready" THEN "none"
                                      ELSE "ConfigEntryNotReady"]
    /\ UNCHANGED <<loop, call, entry_options, device_layout, commanded, ops>>

(***************************************************************************)
(* async_unload_entry.                                                     *)
(***************************************************************************)
AsyncUnloadEntry ==
    /\ setup = "ready"
    /\ \E unload_ok \in BOOLEAN :
        IF unload_ok
        THEN /\ hass_data' = FALSE
             /\ entities_added' = FALSE
             /\ setup' = "idle"
        ELSE UNCHANGED <<hass_data, entities_added, setup>>
    /\ last' = [NoCommand("unload") EXCEPT !.session = session]
    /\ UNCHANGED <<loop, call, entry_options, device_layout, session, api, negotiation, service_registered,
                   coordinator, group_panel_ids, SEGMENT_STATES, GROUP_STATES,
                   commanded, ops>>

(***************************************************************************)
(* The periodic refresh of the coordinator.                                *)
(***************************************************************************)
CoordinatorRefresh ==
    /\ setup = "ready"
    /\ \E state_outcome \in ReadOutcomes, layout_outcome \in ReadOutcomes :
        \* the layout outcome is an input only if the layout is requested
        /\ (ReadFails(state_outcome) \/ coordinator.has_segments)
               => layout_outcome = "200"
        /\ coordinator' = UpdateData(coordinator, device_layout, state_outcome,
                                     layout_outcome)
        /\ last' = [NoCommand("refresh") EXCEPT
                       !.session = session,
                       !.reads = UpdateReads(coordinator, state_outcome)]

    /\ UNCHANGED <<loop, call, entry_options, device_layout, setup, session, api, negotiation, hass_data,
                   service_registered, entities_added, group_panel_ids,
                   SEGMENT_STATES, GROUP_STATES, commanded, ops>>

(***************************************************************************)
(* NanoleafSegmentLight.async_turn_on / async_turn_off.                    *)
(***************************************************************************)
\* history: the colours a command targeted at panels, as a dict
Targeted(history, panel_colors) ==
    [id \in DOMAIN history |->
        IF id \in DictKeys(panel_colors) THEN DictGet(panel_colors, id)
        ELSE history[id]]

PanelCommand ==
    /\ setup = "ready"
    /\ entities_added
    /\ ops < MaxOps
    /\ \E i \in 1..Len(coordinator.data), turn_on \in BOOLEAN,
          kwargs \in TurnOnKwargs \cup TurnOffKwargs, outcome \in HttpOutcomes :
        LET panel_id == coordinator.data[i].panelId
            state == StateOf(SEGMENT_STATES, panel_id)
            store == WriteState(SEGMENT_STATES, panel_id,
                                IF turn_on THEN TurnedOn(state, kwargs)
                                ELSE TurnedOff(state))
            sent == SetPanelColor(store, panel_id, coordinator.data,
                                  TransitionOf(kwargs), outcome)
            color == VisibleColor(StateOf(store, panel_id))
        IN  /\ kwargs \in (IF turn_on THEN TurnOnKwargs ELSE TurnOffKwargs)
            /\ SEGMENT_STATES' = store
            /\ last' = [kind |-> "panel", session |-> session, target |-> panel_id,
                        turn_on |-> turn_on, kwargs |-> kwargs,
                        panel_colors |-> <<<<panel_id, color>>>>,
                        udp |-> sent.udp, http |-> sent.http,
                        raises |-> sent.raises, streaming |-> FALSE,
                        reads |-> <<>>, cause |-> "none"]
            /\ commanded' = Targeted(commanded, <<<<panel_id, color>>>>)
    /\ ops' = ops + 1
    /\ UNCHANGED <<loop, call, entry_options, device_layout, setup, session, api, negotiation, hass_data,
                   service_registered, entities_added, coordinator,
                   group_panel_ids, GROUP_STATES>>

(***************************************************************************)
(* NanoleafSegmentGroup.async_turn_on / async_turn_off.                    *)
(***************************************************************************)
GroupCommand ==
    /\ setup = "ready"
    /\ entities_added
    /\ ops < MaxOps
    /\ \E g \in 1..Len(group_panel_ids), turn_on \in BOOLEAN,
          kwargs \in TurnOnKwargs \cup TurnOffKwargs,
          udp_outcome \in UdpOutcomes, http_outcome \in HttpOutcomes :
        LET index == g - 1
            state == StateOf(GROUP_STATES, index)
            store == WriteState(GROUP_STATES, index,
                                IF turn_on THEN TurnedOn(state, kwargs)
                                ELSE TurnedOff(state))
            sent == SetGroupColor(StateOf(store, index), group_panel_ids[g],
                                  api.external_control_enabled, api.udp_socket,
                                  udp_outcome, http_outcome)
            panel_colors == GroupPanelColors(group_panel_ids[g],
                                             VisibleColor(StateOf(store, index)),
                                             <<>>)
        IN  /\ kwargs \in (IF turn_on THEN TurnOnKwargs ELSE TurnOffKwargs)
            \* an outcome is an input only of a call that is made
            /\ (sent.udp = <<>>) => udp_outcome = "sent"
            /\ (sent.http = <<>>) => http_outcome = "204"
            /\ GROUP_STATES' = store
            /\ last' = [kind |-> "group", session |-> session, target |-> index,
                        turn_on |-> turn_on, kwargs |-> kwargs,
                        panel_colors |-> panel_colors,
                        udp |-> sent.udp, http |-> sent.http,
                        raises |-> sent.raises,
                        streaming |-> StreamingUsable(api.external_control_enabled,
                                                      api.udp_socket),
                        reads |-> <<>>, cause |-> "none"]
            /\ commanded' = Targeted(commanded, panel_colors)
            /\ api' = ApiAfterSend(api, sent)
    /\ ops' = ops + 1
    /\ UNCHANGED <<loop, call, entry_options, device_layout, setup, session, negotiation, hass_data,
                   service_registered, entities_added, coordinator,
                   group_panel_ids, SEGMENT_STATES>>

(***************************************************************************)
(* The set_multiple_segments service.                                      *)
(***************************************************************************)
BulkCommand ==
    /\ service_registered
    /\ ops < MaxOps
    /\ \E items \in BulkInputs(Len(coordinator.data)),
          transition \in Transitions \cup {0}, outcome \in HttpOutcomes :
        LET built == BulkPanelColors(items, coordinator.data, <<>>)
            sent == HandleSetMultipleSegments(items, transition, coordinator.data,
                                              outcome)
        IN  /\ (sent.http = <<>>) => outcome = "204"
            /\ last' = [kind |-> "bulk", session |-> session, target |-> 0,
                        turn_on |-> TRUE,
                        kwargs |-> MkKwargs({"transition"}, 0, <<>>, transition),
                        panel_colors |-> built.panel_colors,
                        udp |-> sent.udp, http |-> sent.http,
                        raises |-> sent.raises, streaming |-> FALSE,
                        reads |-> <<>>, cause |-> "none"]
            /\ commanded' = IF built.ok THEN Targeted(commanded, built.panel_colors)
                            ELSE commanded
    /\ ops' = ops + 1
    /\ UNCHANGED <<loop, call, entry_options, device_layout, setup, session, api, negotiation, hass_data,
                   service_registered, entities_added, coordinator,
                   group_panel_ids, SEGMENT_STATES, GROUP_STATES>>

Next ==
    \/ AsyncSetupEntry
    \/ AsyncUnloadEntry
    \/ CoordinatorRefresh
    \/ PanelCommand
    \/ GroupCommand
    \/ BulkCommand

Spec == Init /\ [][Next]_vars

(***************************************************************************)
(* Functions checked on their own: `call` holds the arguments drawn by the *)
(* initial state and, once the function has run, its result.  The session  *)
(* does not move.                                                          *)
(***************************************************************************)
session_vars == <<device_layout, setup, session, api, negotiation, hass_data,
                  service_registered, entities_added, coordinator,
                  group_panel_ids, SEGMENT_STATES, GROUP_STATES, last,
                  commanded, ops, loop>>

\* the session before async_setup_entry, on the layout with 16-bit ids
NoSession ==
    /\ device_layout = PositionData(NumPanels, FALSE)
    /\ setup = "idle"
    /\ session = 0
    /\ api = NewApi
    /\ negotiation = [attempts |-> 0, failed |-> FALSE]
    /\ hass_data = FALSE
    /\ service_registered = FALSE
    /\ entities_added = FALSE
    /\ coordinator = NewCoordinator
    /\ group_panel_ids = <<>>
    /\ SEGMENT_STATES = <<>>
    /\ GROUP_STATES = <<>>
    /\ last = NoCommand("none")
    /\ commanded = [id \in PanelIds(device_layout) |-> <<>>]
    /\ ops = 0
    /\ loop = NoLoop

\* angles with ties, in hundredths of a degree
Angles == {0, 4000, 20000}

\* segment lists in layout order; the panel id is the position in the list
AngleSegments ==
    UNION {{[i \in 1..n |-> [panelId |-> i, angle_deg |-> angles[i]]] :
              angles \in [1..n -> Angles]} : n \in 0..MaxSegments}

GroupCalls ==
    {[fn |-> "create_groups_by_position", done |-> FALSE, segments |-> segs,
      group_size |-> g, result |-> <<>>] :
        segs \in AngleSegments, g \in 1..MaxGroupSize}

\* stored states that are on, over every channel value and brightness; the
\* three channels hold different values
ColorCalls ==
    {[fn |-> "visible_color", done |-> FALSE,
      state |-> [is_on |-> TRUE, brightness |-> b,
                 rgb_color |-> <<c, MaxU8 - c, (c + 85) % (MaxU8 + 1)>>],
      result |-> <<>>] : c \in 0..MaxU8, b \in 0..MaxU8}

\* lines 221-230 of light.py, 203-212 of group.py
ApplyVisibleColor ==
    /\ call.fn = "visible_color"
    /\ ~call.done
    /\ call' = [call EXCEPT !.done = TRUE, !.result = VisibleColor(call.state)]
    /\ UNCHANGED <<session_vars, entry_options>>

\* panel ids at the ends of the 16-bit range and around the byte boundary
FrameIds == {0, 255, 256, MaxU16}
FrameColors == {<<0, 0, 0>>, <<MaxU8, 128, 1>>}

\* dicts of panel id to colour: the keys of a dict are distinct
FrameMappings ==
    UNION {{d \in [1..n -> FrameIds \X FrameColors] :
               \A i, j \in 1..n : i # j => d[i][1] # d[j][1]} :
           n \in 0..MaxFramePanels}

FrameCalls ==
    {[fn |-> "udp_packet", done |-> FALSE, panel_colors |-> d, smooth |-> smooth,
      result |-> [ok |-> FALSE, bytes |-> <<>>]] :
        d \in FrameMappings, smooth \in BOOLEAN}

\* lines 212-226 of set_multiple_panels_udp: the frame handed to sendto
ApplyUdpPacket ==
    /\ call.fn = "udp_packet"
    /\ ~call.done
    /\ call' = [call EXCEPT !.done = TRUE,
                            !.result = UdpPacket(call.panel_colors, call.smooth)]
    /\ UNCHANGED <<session_vars, entry_options>>

ApplyCreateGroups ==
    /\ call.fn = "create_groups_by_position"
    /\ ~call.done
    /\ call' = [call EXCEPT
                   !.done = TRUE,
                   !.result = create_groups_by_position(call.segments,
                                                        call.group_size)]
    /\ UNCHANGED <<session_vars, entry_options>>

\* one coordinator, refreshed again and again: the call holds the
\* coordinator and, of its last refresh, what the device would have
\* answered and the reads that were issued; fetch_failures is history
UpdateCalls ==
    {[fn |-> "_async_update_data", done |-> FALSE, coordinator |-> NewCoordinator,
      refreshes |-> 0, position_data |-> <<>>, state_outcome |-> "none",
      layout_outcome |-> "none", reads |-> <<>>, fetch_failures |-> 0]}

\* _async_update_data, once more on the same coordinator
ApplyUpdateData ==
    /\ call.fn = "_async_update_data"
    /\ call.refreshes < MaxRefreshes
    /\ \E position_data \in DeviceLayouts,
          state_outcome \in ReadOutcomes, layout_outcome \in ReadOutcomes :
        \* the layout outcome is an input only if the layout is requested
        /\ (ReadFails(state_outcome) \/ call.coordinator.has_segments)
               => layout_outcome = "200"
        /\ call' = [call EXCEPT
                       !.done = TRUE,
                       !.coordinator = UpdateData(call.coordinator, position_data,
                                                  state_outcome, layout_outcome),
                       !.refreshes = @ + 1,
                       !.position_data = position_data,
                       !.state_outcome = state_outcome,
                       !.layout_outcome = layout_outcome,
                       !.reads = UpdateReads(call.coordinator, state_outcome),
                       !.fetch_failures =
                           IF ReadFails(layout_outcome) THEN @ + 1 ELSE @]
    /\ UNCHANGED <<session_vars, entry_options>>

\* segment indices a caller can name: in range, past the end, negative and
\* below minus the number of segments
BulkIndices == (0 - (NumPanels + 1))..(NumPanels + 1)
BulkColors == {<<255, 0, 0>>, <<51, 102, 204>>}

\* segment_colors: the keys of a dict are distinct
BulkMappings ==
    UNION {{d \in [1..n -> BulkIndices \X BulkColors] :
               \A i, j \in 1..n : i # j => d[i][1] # d[j][1]} :
           n \in 0..MaxBulkItems}

BulkCalls ==
    {[fn |-> "handle_set_multiple_segments", done |-> FALSE, items |-> items,
      transition |-> transition, outcome |-> outcome,
      segments |-> GetAllSegments(PositionData(NumPanels, FALSE)),
      result |-> [udp |-> <<>>, http |-> <<>>, raises |-> "none"]] :
        items \in BulkMappings, transition \in Transitions \cup {0},
        outcome \in HttpOutcomes}

\* handle_set_multiple_segments on the segments of the coordinator
ApplyHandleSetMultipleSegments ==
    /\ call.fn = "handle_set_multiple_segments"
    /\ ~call.done
    /\ call' = [call EXCEPT
                   !.done = TRUE,
                   !.result = HandleSetMultipleSegments(call.items, call.transition,
                                                        call.segments, call.outcome)]
    /\ UNCHANGED <<session_vars, entry_options>>

\* entries of a mapping handed to a streaming send: two that fit the frame,
\* two whose id does not fit 'H', two with a channel that does not fit 'B'
StreamEntries ==
    {<<0, <<MaxU8, 128, 1>>>>, <<MaxU16, <<0, 0, 0>>>>,
     <<MaxU16 + 1, <<0, 0, 0>>>>, <<0 - 1, <<MaxU8, 128, 1>>>>,
     <<1, <<MaxU8 + 1, 0, 0>>>>, <<2, <<0, 0 - 1, 0>>>>}

\* dicts of panel id to colour: the keys of a dict are distinct
StreamMappings ==
    UNION {{d \in [1..n -> StreamEntries] :
               \A i, j \in 1..n : i # j => d[i][1] # d[j][1]} :
           n \in 0..MaxStreamPanels}

\* the sessions enable_external_control can leave
NegotiatedApis ==
    {[external_control_enabled |->
          EnableExternalControl(p, i, k).external_control_enabled,
      udp_socket |-> EnableExternalControl(p, i, k).udp_socket] :
        p \in HttpOutcomes, i \in InfoOutcomes, k \in SocketOutcomes}

\* one session, sent one mapping again and again: the call holds the session
\* and the result of its last send; sends and send_failures are history
StreamCalls ==
    {[fn |-> "set_multiple_panels_udp", done |-> FALSE, api |-> negotiated,
      panel_colors |-> panel_colors, smooth |-> smooth,
      sends |-> 0, send_failures |-> 0,
      result |-> [udp |-> <<>>, http |-> <<>>, raises |-> "none"]] :
        negotiated \in NegotiatedApis, panel_colors \in StreamMappings,
        smooth \in BOOLEAN}

\* set_multiple_panels_udp, once more on the same session
ApplySetMultiplePanelsUdp ==
    /\ call.fn = "set_multiple_panels_udp"
    /\ call.sends < MaxSends
    /\ \E udp_outcome \in UdpOutcomes, http_outcome \in HttpOutcomes :
        LET sent == SetMultiplePanelsUdp(call.api.external_control_enabled,
                                         call.api.udp_socket, call.panel_colors,
                                         call.smooth, udp_outcome, http_outcome,
                                         "loop")
        IN  \* an outcome is an input only of a call that is made
            /\ (sent.udp = <<>>) => udp_outcome = "sent"
            /\ (sent.http = <<>>) => http_outcome = "204"
            /\ call' = [call EXCEPT
                           !.done = TRUE,
                           !.api = ApiAfterSend(call.api, sent),
                           !.sends = @ + 1,
                           !.send_failures =
                               IF StreamingUsable(call.api.external_control_enabled,
                                                  call.api.udp_socket)
                                  /\ sent.http # <<>>
                               THEN @ + 1 ELSE @,
                           !.result = sent]
    /\ UNCHANGED <<session_vars, entry_options>>

FnInit ==
    /\ NoSession
    /\ entry_options = NoOptions
    /\ \/ call \in GroupCalls
       \/ call \in ColorCalls
       \/ call \in FrameCalls
       \/ call \in UpdateCalls
       \/ call \in BulkCalls
       \/ call \in StreamCalls

FnNext ==
    \/ ApplyCreateGroups
    \/ ApplyVisibleColor
    \/ ApplyUdpPacket
    \/ ApplyUpdateData
    \/ ApplyHandleSetMultipleSegments
    \/ ApplySetMultiplePanelsUdp

FnSpec == FnInit /\ [][FnNext]_vars

(***************************************************************************)
(* The options flow: NanoleafLinesOptionsFlow._parse_group_config and      *)
(* async_step_groups.  A Python str is the sequence of its characters.     *)
(***************************************************************************)
Whitespace == {" "}
DigitChars == <<"0", "1", "2", "3", "4", "5", "6", "7", "8", "9">>
Digits == {DigitChars[i] : i \in 1..Len(DigitChars)}
DigitValue(ch) == (CHOOSE i \in 1..Len(DigitChars) : DigitChars[i] = ch) - 1

RECURSIVE LStrip(_)
LStrip(str) ==
    IF str # <<>> /\ Head(str) \in Whitespace THEN LStrip(Tail(str)) ELSE str

RECURSIVE RStrip(_)
RStrip(str) ==
    IF str # <<>> /\ str[Len(str)] \in Whitespace
    THEN RStrip(SubSeq(str, 1, Len(str) - 1))
    ELSE str

\* str.strip()
Strip(str) == RStrip(LStrip(str))

RECURSIVE Split(_, _)
\* str.split(sep) for a one-character separator: "".split(sep) is [""]
Split(str, sep) ==
    IF \E i \in 1..Len(str) : str[i] = sep
    THEN LET i == CHOOSE k \in 1..Len(str) :
                     str[k] = sep /\ \A j \in 1..(k - 1) : str[j] # sep
         IN  <<SubSeq(str, 1, i - 1)>> \o Split(SubSeq(str, i + 1, Len(str)), sep)
    ELSE <<str>>

RECURSIVE DigitsValue(_)
\* the value of digits with single underscores between them
DigitsValue(body) ==
    IF body = <<>> THEN 0
    ELSE IF body[Len(body)] = "_" THEN DigitsValue(SubSeq(body, 1, Len(body) - 1))
    ELSE 10 * DigitsValue(SubSeq(body, 1, Len(body) - 1))
         + DigitValue(body[Len(body)])

\* int(token): an optional sign, then digits with single underscores
\* between them; ok is FALSE on ValueError
IntOf(token) ==
    LET tok == Strip(token)
        signed == tok # <<>> /\ tok[1] \in {"+", "-"}
        body == IF signed THEN Tail(tok) ELSE tok
        valid == /\ body # <<>>
                 /\ \A i \in 1..Len(body) : body[i] \in Digits \cup {"_"}
                 /\ body[1] # "_"
                 /\ body[Len(body)] # "_"
                 /\ \A i \in 1..(Len(body) - 1) :
                        ~(body[i] = "_" /\ body[i + 1] = "_")
    IN  IF ~valid THEN [ok |-> FALSE, value |-> 0]
        ELSE [ok |-> TRUE,
              value |-> IF signed /\ tok[1] = "-" THEN 0 - DigitsValue(body)
                        ELSE DigitsValue(body)]

\* [int(x.strip()) for x in group_str.split(",")]
ParseIndices(group_str) ==
    LET tokens == Split(group_str, ",")
        ints == [i \in 1..Len(tokens) |-> IntOf(Strip(tokens[i]))]
    IN  [ok |-> \A i \in 1..Len(ints) : ints[i].ok,
         indices |-> [i \in 1..Len(ints) |-> ints[i].value]]

RECURSIVE ParseGroupStrings(_, _)
\* the loop over config_str.strip().split(";")
ParseGroupStrings(pieces, groups) ==
    IF pieces = <<>> THEN [ok |-> TRUE, groups |-> groups]
    ELSE LET group_str == Strip(Head(pieces))
         IN  IF group_str = <<>>
             THEN ParseGroupStrings(Tail(pieces), groups)
             ELSE IF ParseIndices(group_str).ok
                  THEN ParseGroupStrings(
                           Tail(pieces),
                           Append(groups, ParseIndices(group_str).indices))
                  ELSE [ok |-> FALSE, groups |-> <<>>]

\* variant: a group that does not parse is left out
ParseGroupConfig_SkipsBadGroup(config_str) ==
    LET pieces == Split(Strip(config_str), ";")
        good == SelectSeq(pieces,
                          LAMBDA p : Strip(p) # <<>> /\ ParseIndices(Strip(p)).ok)
    IN  IF Strip(config_str) = <<>> THEN [ok |-> TRUE, groups |-> <<>>]
        ELSE ParseGroupStrings(good, <<>>)

\* _parse_group_config; ok is FALSE when it raises ValueError
ParseGroupConfig(config_str) ==
    IF Strip(config_str) = <<>> THEN [ok |-> TRUE, groups |-> <<>>]
    ELSE ParseGroupStrings(Split(Strip(config_str), ";"), <<>>)

\* async_step_groups: the entry options after the step and what it returns
StepGroups(options, user_input) ==
    IF ~user_input.given
    THEN [options |-> options, result |-> "form", errors |-> "none"]
    ELSE LET parsed == ParseGroupConfig(user_input.group_config)
         IN  IF parsed.ok
             THEN [options |-> [given |-> TRUE, manual_groups |-> parsed.groups],
                   result |-> "create_entry", errors |-> "none"]
             ELSE [options |-> options, result |-> "form",
                   errors |-> "invalid_group_config"]

(***************************************************************************)
(* light.async_setup_entry: the groups the platform builds (lines 52-78).  *)
(***************************************************************************)
RECURSIVE GroupSegments(_, _, _)
\* [segments[i] for i in group_indices if i < len(segments)]; ok is FALSE
\* on an IndexError
GroupSegments(group_indices, segments, acc) ==
    IF group_indices = <<>> THEN [ok |-> TRUE, members |-> acc]
    ELSE LET i == Head(group_indices)
         IN  IF i < Len(segments)
             THEN IF PyIndex(segments, i).ok
                  THEN GroupSegments(Tail(group_indices), segments,
                                     Append(acc, segments[PyIndex(segments, i).at]))
                  ELSE [ok |-> FALSE, members |-> <<>>]
             ELSE GroupSegments(Tail(group_indices), segments, acc)

RECURSIVE ManualGroups(_, _, _)
\* the loop over manual_groups: a group with no member is not appended
ManualGroups(manual_groups, segments, groups) ==
    IF manual_groups = <<>> THEN [ok |-> TRUE, groups |-> groups]
    ELSE LET group_segments == GroupSegments(Head(manual_groups), segments, <<>>)
         IN  IF ~group_segments.ok THEN [ok |-> FALSE, groups |-> <<>>]
             ELSE ManualGroups(Tail(manual_groups), segments,
                               IF group_segments.members # <<>>
                               THEN Append(groups, group_segments.members)
                               ELSE groups)

\* `if manual_groups:` on entry.options.get(CONF_MANUAL_GROUPS)
ManualConfigured(options) == options.given /\ options.manual_groups # <<>>

\* variant: automatic grouping when no manual group is left
LightSetupGroups_AutoWhenAllDropped(segments, create_groups, options) ==
    IF ~create_groups
    THEN [raises |-> "none", built |-> FALSE, automatic |-> FALSE, groups |-> <<>>]
    ELSE IF ManualConfigured(options)
    THEN LET manual == ManualGroups(options.manual_groups, segments, <<>>)
         IN  IF ~manual.ok
             THEN [raises |-> "IndexError", built |-> FALSE, automatic |-> FALSE,
                   groups |-> <<>>]
             ELSE IF manual.groups = <<>>
             THEN [raises |-> "none", built |-> TRUE, automatic |-> TRUE,
                   groups |-> create_groups_by_position(segments,
                                                        DEFAULT_GROUP_SIZE)]
             ELSE [raises |-> "none", built |-> TRUE, automatic |-> FALSE,
                   groups |-> manual.groups]
    ELSE [raises |-> "none", built |-> TRUE, automatic |-> TRUE,
          groups |-> create_groups_by_position(segments, DEFAULT_GROUP_SIZE)]

\* the group part of light.async_setup_entry: the exception it raises, if
\* group entities were built, if create_groups_by_position was applied, and
\* the segments of each group entity
LightSetupGroups(segments, create_groups, options) ==
    IF ~create_groups
    THEN [raises |-> "none", built |-> FALSE, automatic |-> FALSE, groups |-> <<>>]
    ELSE IF ManualConfigured(options)
    THEN LET manual == ManualGroups(options.manual_groups, segments, <<>>)
         IN  IF manual.ok
             THEN [raises |-> "none", built |-> TRUE, automatic |-> FALSE,
                   groups |-> manual.groups]
             ELSE [raises |-> "IndexError", built |-> FALSE, automatic |-> FALSE,
                   groups |-> <<>>]
    ELSE [raises |-> "none", built |-> TRUE, automatic |-> TRUE,
          groups |-> create_groups_by_position(segments, DEFAULT_GROUP_SIZE)]

(***************************************************************************)
(* The options form submitted once on an entry, then the platform set up   *)
(* with the options it left.                                               *)
(***************************************************************************)
ConfigAlphabet == {"1", "5", "-", ",", ";", " ", "a"}

ShortStrings == UNION {[1..n -> ConfigAlphabet] : n \in 0..MaxConfigLen}

\* "0,1,2; 3,4,5", "0,1,; abc", "+1, 1_0", "7;;-1", " ; "
ExampleStrings ==
    {<<"0", ",", "1", ",", "2", ";", " ", "3", ",", "4", ",", "5">>,
     <<"0", ",", "1", ",", ";", " ", "a", "b", "c">>,
     <<"+", "1", ",", " ", "1", "_", "0">>,
     <<"7", ";", ";", "-", "1">>,
     <<" ", ";", " ">>}

ConfigStrings == ShortStrings \cup ExampleStrings

\* user_input of async_step_groups: None when the form is first shown
UserInputs ==
    {[given |-> FALSE, group_config |-> <<>>]}
    \cup {[given |-> TRUE, group_config |-> str] : str \in ConfigStrings}

\* options an earlier submission of the form left on the entry
StoredOptions ==
    {StepGroups(NoOptions, [given |-> TRUE, group_config |-> str]).options :
        str \in ExampleStrings}

FlowCalls ==
    {[fn |-> "async_step_groups", done |-> FALSE, user_input |-> input,
      result |-> "none", errors |-> "none"] : input \in UserInputs}

AsyncStepGroups ==
    /\ call.fn = "async_step_groups"
    /\ ~call.done
    /\ LET step == StepGroups(entry_options, call.user_input)
       IN  /\ entry_options' = step.options
           /\ call' = [call EXCEPT !.done = TRUE,
                                   !.result = step.result,
                                   !.errors = step.errors]
    /\ UNCHANGED session_vars

LightAsyncSetupEntry ==
    /\ call.fn = "async_step_groups"
    /\ call.done
    /\ \E create_groups \in BOOLEAN :
        call' = [fn |-> "light.async_setup_entry", done |-> TRUE,
                 segments |-> GetAllSegments(device_layout),
                 create_groups |-> create_groups,
                 setup |-> LightSetupGroups(GetAllSegments(device_layout),
                                            create_groups, entry_options)]
    /\ UNCHANGED <<session_vars, entry_options>>

OptionsInit ==
    /\ NoSession
    /\ entry_options \in StoredOptions
    /\ call \in FlowCalls

OptionsNext ==
    \/ AsyncStepGroups
    \/ LightAsyncSetupEntry

OptionsSpec == OptionsInit /\ [][OptionsNext]_vars

(***************************************************************************)
(* Per-panel commands handled concurrently.  async_turn_on and             *)
(* async_turn_off run on the event loop up to                              *)
(* `await self.hass.async_add_executor_job(_send_effect)`: the state write *)
(* and the snapshot are made without yielding.  _send_effect runs on a     *)
(* thread of the executor pool, in parallel with the jobs of the other     *)
(* coroutines, and the coroutine resumes once it has returned.             *)
(***************************************************************************)
\* the kwargs of the commands handled here (the transition plays no part)
LoopKwargs(turn_on) ==
    {kwargs \in (IF turn_on THEN TurnOnKwargs ELSE TurnOffKwargs) :
        "transition" \notin kwargs.given}

\* the coroutine up to its await: the store as written and the coroutine as
\* suspended, its payload built; before and after are history, the colour
\* of its panel in the store before the write and the colour it commands
PanelHandlerBuilt(store, all_segments, panel_id, turn_on, kwargs) ==
    LET state == StateOf(store, panel_id)
        commanded_state == IF turn_on THEN TurnedOn(state, kwargs)
                           ELSE TurnedOff(state)
        written == WriteState(store, panel_id, commanded_state)
    IN  [store |-> written,
         task |-> [panel_id |-> panel_id, turn_on |-> turn_on, kwargs |-> kwargs,
                   pc |-> "executor",
                   anim |-> PanelAnimData(written, panel_id, all_segments,
                                          TransitionTime(TransitionOf(kwargs))),
                   before |-> VisibleColor(state),
                   after |-> VisibleColor(commanded_state),
                   delivered |-> FALSE]]

\* a coroutine starts and runs to its await
PanelHandlerStart ==
    /\ setup = "ready"
    /\ entities_added
    /\ Len(loop.tasks) < MaxTasks
    /\ \E i \in 1..Len(coordinator.data), turn_on \in BOOLEAN :
        \E kwargs \in LoopKwargs(turn_on) :
            LET built == PanelHandlerBuilt(SEGMENT_STATES, coordinator.data,
                                           coordinator.data[i].panelId,
                                           turn_on, kwargs)
            IN  /\ SEGMENT_STATES' = built.store
                /\ loop' = [loop EXCEPT !.tasks = Append(@, built.task)]
    /\ UNCHANGED <<device_layout, setup, session, api, negotiation, hass_data,
                   service_registered, entities_added, coordinator,
                   group_panel_ids, GROUP_STATES, last, commanded, ops,
                   entry_options, call>>

\* _send_effect of any suspended coroutine runs on its worker thread and
\* the coroutine resumes: it logs the result or the exception and writes the
\* entity state.  A write the device answered with success is appended to
\* what the device received.
ExecutorSendEffect ==
    /\ \E t \in 1..Len(loop.tasks), outcome \in HttpOutcomes :
        /\ loop.tasks[t].pc = "executor"
        /\ loop' = [tasks |-> [loop.tasks EXCEPT ![t].pc = "done",
                                                  ![t].delivered = (outcome = "204")],
                    received |-> IF outcome = "204"
                                 THEN Append(loop.received, t)
                                 ELSE loop.received]
    /\ UNCHANGED <<device_layout, setup, session, api, negotiation, hass_data,
                   service_registered, entities_added, coordinator,
                   group_panel_ids, SEGMENT_STATES, GROUP_STATES, last,
                   commanded, ops, entry_options, call>>

\* the session as a setup in which every call succeeded leaves it
ReadySession ==
    /\ device_layout = PositionData(NumPanels, FALSE)
    /\ setup = "ready"
    /\ session = 1
    /\ api = [external_control_enabled |-> TRUE, udp_socket |-> TRUE]
    /\ negotiation = [attempts |-> 1, failed |-> FALSE]
    /\ hass_data = TRUE
    /\ service_registered = TRUE
    /\ entities_added = TRUE
    /\ coordinator = UpdateData(NewCoordinator, device_layout, "200", "200")
    /\ group_panel_ids = GroupPanelIds(coordinator.data)
    /\ last = [NoCommand("setup") EXCEPT !.session = 1]
    /\ commanded = [id \in PanelIds(device_layout) |-> <<>>]
    /\ ops = 0
    /\ entry_options = NoOptions
    /\ call = NoCall

LoopInit ==
    /\ ReadySession
    /\ SEGMENT_STATES = InitStates(<<>>, SegmentKeys(coordinator.data))
    /\ GROUP_STATES = InitStates(<<>>, GroupKeys(group_panel_ids))
    /\ loop = NoLoop

LoopNext ==
    \/ PanelHandlerStart
    \/ ExecutorSendEffect

LoopSpec == LoopInit /\ [][LoopNext]_vars

(***************************************************************************)
(* The config entry set up again in the same process.  SEGMENT_STATES and  *)
(* GROUP_STATES are module-level dicts: they outlive async_unload_entry    *)
(* and hold what the entities of the earlier load left, on the layout the  *)
(* device reported then.                                                   *)
(***************************************************************************)
\* the layouts the device may have reported to the earlier load: the ones
\* it can report now, and one with a panel fewer
PriorLayouts == DeviceLayouts \cup {PositionData(NumPanels - 1, FALSE)}

\* a state an earlier turn_on(brightness, rgb_color) then turn_off left
LeftByCommands == TurnedOff(TurnedOn(DefaultState, MkKwargs({"brightness", "rgb_color"}, 155, <<255, 0, 0>>, 0)))

\* a store after the earlier load: its entities inserted their defaults and
\* the entity of one key was commanded
PriorStore(keys, key) ==
    WriteState(InitStates(<<>>, keys), key, LeftByCommands)

ReloadInit ==
    /\ device_layout \in DeviceLayouts
    /\ setup = "idle"
    /\ session = 0
    /\ api = NewApi
    /\ negotiation = [attempts |-> 0, failed |-> FALSE]
    /\ hass_data = FALSE
    /\ service_registered = FALSE
    /\ entities_added = FALSE
    /\ coordinator = NewCoordinator
    /\ group_panel_ids = <<>>
    /\ \E prior \in PriorLayouts :
        /\ SEGMENT_STATES =
             PriorStore(SegmentKeys(GetAllSegments(prior)),
                        GetAllSegments(prior)[Len(GetAllSegments(prior))].panelId)
        /\ GROUP_STATES =
             PriorStore(GroupKeys(GroupPanelIds(GetAllSegments(prior))), 0)
    /\ last = NoCommand("none")
    /\ commanded = [id \in PanelIds(device_layout) |-> <<>>]
    /\ ops = 0
    /\ entry_options = NoOptions
    /\ call = NoCall
    /\ loop = NoLoop

ReloadNext ==
    \/ AsyncSetupEntry
    \/ AsyncUnloadEntry
    \/ PanelCommand
    \/ GroupCommand

ReloadSpec == ReloadInit /\ [][ReloadNext]_vars

(***************************************************************************)
(* Reading a custom-animation payload back, for the properties below.      *)
(***************************************************************************)
\* the panels of the layout the device reports
LayoutIds == PanelIds(device_layout)

\* the 7-token entries that follow the leading count
AnimEntries(anim) ==
    [k \in 1..((Len(anim) - 1) \div 7) |-> SubSeq(anim, 7 * k - 5, 7 * k + 1)]

\* the entries that name a panel
EntriesOf(anim, id) ==
    {k \in DOMAIN AnimEntries(anim) : AnimEntries(anim)[k][1] = id}

ListedOnce(anim, id) == Cardinality(EntriesOf(anim, id)) = 1

\* the RGB triple of the entry of a panel listed once
ColorIn(anim, id) ==
    LET e == AnimEntries(anim)[CHOOSE k \in EntriesOf(anim, id) : TRUE]
    IN  <<e[3], e[4], e[5]>>

\* the payload lists n entries and its leading count says so
ListsEntries(anim, n) == anim[1] = n /\ Len(anim) = 1 + 7 * n

\* the brightness-scaled colour of a commanded state
ScaledColor(state) ==
    IF state.is_on
    THEN <<Scale(state.rgb_color[1], state.brightness),
           Scale(state.rgb_color[2], state.brightness),
           Scale(state.rgb_color[3], state.brightness)>>
    ELSE <<0, 0, 0>>

\* the payload is exactly the mapping: same panels, same colours, white 0
EncodesMapping(anim, panel_colors) ==
    /\ ListsEntries(anim, Len(panel_colors))
    /\ \A i \in 1..Len(panel_colors) :
        /\ ListedOnce(anim, panel_colors[i][1])
        /\ ColorIn(anim, panel_colors[i][1]) = panel_colors[i][2]
    /\ \A k \in DOMAIN AnimEntries(anim) : AnimEntries(anim)[k][6] = 0

(***************************************************************************)
(* C1: a per-panel turn_on / turn_off sends exactly one custom-animation   *)
(* command, and that command lists every panel of the layout exactly once: *)
(* the target at its new brightness-scaled colour (black when turned off), *)
(* every other panel at the brightness-scaled colour of its stored state   *)
(* (black if stored off, white if the store holds nothing for it).         *)
(***************************************************************************)
C1_PanelSnapshotListsAll ==
    last.kind = "panel" =>
        /\ last.udp = <<>>
        /\ Len(last.http) = 1
        /\ LET anim == last.http[1].animData
           IN  /\ ListsEntries(anim, Cardinality(LayoutIds))
               /\ \A id \in LayoutIds :
                    /\ ListedOnce(anim, id)
                    /\ ColorIn(anim, id) =
                         IF id = last.target
                         THEN IF last.turn_on
                              THEN ScaledColor(SEGMENT_STATES[id])
                              ELSE <<0, 0, 0>>
                         ELSE IF id \in DOMAIN SEGMENT_STATES
                              THEN ScaledColor(SEGMENT_STATES[id])
                              ELSE <<255, 255, 255>>

\* a panel is updated while another panel is stored off or dimmed
C1_Witness ==
    /\ last.kind = "panel"
    /\ last.turn_on
    /\ SEGMENT_STATES[last.target].brightness < 255
    /\ \E id \in LayoutIds \ {last.target} :
        ~SEGMENT_STATES[id].is_on \/ SEGMENT_STATES[id].brightness < 255

(***************************************************************************)
(* C2: no custom-animation command written to the device omits a panel of  *)
(* the layout, whichever handler wrote it (per-panel, group with fallback  *)
(* to the reliable path, bulk service).                                    *)
(***************************************************************************)
C2_NoCommandOmitsAPanel ==
    \A w \in 1..Len(last.http) :
        \A id \in LayoutIds : EntriesOf(last.http[w].animData, id) # {}

(***************************************************************************)
(* C3: the colour a per-panel update sends for a panel it does not target  *)
(* is the colour most recently commanded to that panel by any operation    *)
(* (per-panel, per-group or bulk).                                         *)
(***************************************************************************)
C3_SnapshotHoldsLastCommanded ==
    (last.kind = "panel" /\ Len(last.http) = 1) =>
        \A id \in LayoutIds \ {last.target} :
            commanded[id] # <<>> =>
                ColorIn(last.http[1].animData, id) = commanded[id]

(***************************************************************************)
(* C4: within one session the streaming capability goes from Unattempted   *)
(* to Enabled or Disabled and never changes again: the mode-switch write   *)
(* is issued exactly once, by setup, and no later handler of the session   *)
(* (send, fallback, refresh) changes the capability.                       *)
(***************************************************************************)
StreamingCapability ==
    IF negotiation.attempts = 0 THEN "Unattempted"
    ELSE IF api.external_control_enabled THEN "Enabled"
    ELSE "Disabled"

C4_NegotiatedOnceNeverReEnabled ==
    /\ [](negotiation.attempts <= 1)
    /\ [](setup = "ready" => negotiation.attempts = 1)
    /\ [][session' = session =>
            /\ negotiation'.attempts = negotiation.attempts
            /\ StreamingCapability' = StreamingCapability]_vars

\* a group command was sent in a session whose negotiation failed
C4_Witness ==
    /\ StreamingCapability = "Disabled"
    /\ last.kind = "group"
    /\ Len(last.http) = 1

(***************************************************************************)
(* C5: a datagram is handed to the socket only in a session whose three    *)
(* negotiation steps all succeeded; in any other session a streaming send  *)
(* sends no datagram and writes exactly one custom-animation command that  *)
(* holds every requested panel at its requested colour, white channel 0.   *)
(***************************************************************************)
C5_DatagramOnlyAfterNegotiation ==
    last.kind = "group" =>
        /\ last.udp # <<>> => (negotiation.attempts = 1 /\ ~negotiation.failed)
        /\ (negotiation.attempts = 0 \/ negotiation.failed) =>
              /\ last.udp = <<>>
              /\ Len(last.http) = 1
              /\ EncodesMapping(last.http[1].animData, last.panel_colors)

\* a streaming send in a session where the socket was created but the
\* negotiation failed afterwards
C5_Witness ==
    /\ last.kind = "group"
    /\ negotiation.failed
    /\ api.udp_socket
    /\ Len(last.panel_colors) > 1

(***************************************************************************)
(* C6: one streaming send in an enabled session hands at most one datagram *)
(* to the socket and makes at most one reliable write: none if the         *)
(* datagram was sent, exactly one for the same mapping if encoding or      *)
(* sending failed, whatever the outcome of that write.                     *)
(***************************************************************************)
C6_AtMostOneFallback ==
    (last.kind = "group" /\ last.streaming) =>
        /\ Len(last.udp) <= 1
        /\ Len(last.http) <= 1
        /\ (Len(last.udp) = 1 /\ last.udp[1].outcome = "sent") => last.http = <<>>
        /\ (last.udp = <<>> \/ last.udp[1].outcome # "sent") =>
              /\ Len(last.http) = 1
              /\ EncodesMapping(last.http[1].animData, last.panel_colors)

\* the datagram send failed and the one reliable write failed too
C6_Witness ==
    /\ last.kind = "group"
    /\ last.streaming
    /\ Len(last.udp) = 1
    /\ last.udp[1].outcome = "oserror"
    /\ Len(last.http) = 1
    /\ last.http[1].outcome = "conn_error"

(***************************************************************************)
(* C7: set_multiple_panels returns normally after exactly one write        *)
(* attempt, for every outcome of the write.                                *)
(***************************************************************************)
C7_ReliableNeverRaises ==
    (last.kind \in {"bulk", "group"} /\ last.http # <<>>) =>
        /\ Len(last.http) = 1
        /\ last.raises = "none"

\* the write of the bulk service met a connection error
C7_Witness ==
    /\ last.kind = "bulk"
    /\ Len(last.http) = 1
    /\ last.http[1].outcome = "conn_error"

(***************************************************************************)
(* C8: turn_on / turn_off of a panel or group entity completes normally    *)
(* for every transport outcome; the store keeps the commanded change and   *)
(* the availability of the entity (coordinator.last_update_success) is     *)
(* what it was before the command.                                         *)
(***************************************************************************)
StoredTarget ==
    IF last.kind = "panel" THEN SEGMENT_STATES[last.target]
    ELSE GROUP_STATES[last.target]

C8_SendFailureNotPropagated ==
    [][(last'.kind \in {"panel", "group"} /\ ops' = ops + 1) =>
          /\ last'.raises = "none"
          /\ coordinator'.last_update_success = coordinator.last_update_success
          /\ StoredTarget'.is_on = last'.turn_on
          /\ (last'.turn_on /\ "brightness" \in last'.kwargs.given) =>
                StoredTarget'.brightness = last'.kwargs.brightness
          /\ (last'.turn_on /\ "rgb_color" \in last'.kwargs.given) =>
                StoredTarget'.rgb_color = last'.kwargs.rgb_color]_vars

\* a panel turn_on with a brightness whose write met a connection error
C8_Witness ==
    /\ last.kind = "panel"
    /\ last.turn_on
    /\ "brightness" \in last.kwargs.given
    /\ last.http[1].outcome = "conn_error"
    /\ SEGMENT_STATES[last.target].brightness = last.kwargs.brightness

(***************************************************************************)
(* C9: a failed negotiation does not fail setup: setup is never aborted    *)
(* because of it, the session runs with streaming disabled, and its group  *)
(* updates go through the reliable path.                                   *)
(***************************************************************************)
C9_NegotiationFailureNotFatal ==
    (negotiation.attempts = 1 /\ negotiation.failed) =>
        /\ ~api.external_control_enabled
        /\ last.kind = "setup" =>
              /\ last.cause # "negotiation"
              /\ last.cause = "none" => (setup = "ready" /\ hass_data)
        /\ last.kind = "group" => (last.udp = <<>> /\ Len(last.http) = 1)

\* a group update in a ready session whose negotiation had failed
C9_Witness ==
    /\ setup = "ready"
    /\ negotiation.failed
    /\ last.kind = "group"
    /\ Len(last.http) = 1

(***************************************************************************)
(* C10: a setup whose layout fetch fails, or whose streaming negotiation   *)
(* fails, ends as a setup failure with no session: no coordinator stored,  *)
(* no bulk service registered, no entities set up.                         *)
(***************************************************************************)
C10_SetupFailuresPropagated ==
    (last.kind = "setup" /\ (last.cause = "layout" \/ negotiation.failed)) =>
        /\ setup = "not_ready"
        /\ ~hass_data
        /\ ~service_registered
        /\ ~entities_added

(***************************************************************************)
(* C10 as amended: a setup whose layout fetch fails ends as a setup        *)
(* failure and that attempt creates no session: it stores no coordinator,  *)
(* does not register the bulk service and sets up no entities.             *)
(***************************************************************************)
C10_LayoutFailurePropagated ==
    [][(last'.kind = "setup" /\ last'.cause = "layout") =>
          /\ setup' = "not_ready"
          /\ last'.raises = "ConfigEntryNotReady"
          /\ ~hass_data'
          /\ service_registered' = service_registered
          /\ ~entities_added'
          /\ coordinator' = coordinator]_vars

\* a setup attempt stopped by a failed layout fetch
C10_Witness ==
    /\ last.kind = "setup"
    /\ last.cause = "layout"
    /\ setup = "not_ready"


(***************************************************************************)
(* C11: create_groups_by_position on N segments with group size G >= 1     *)
(* returns ceil(N / G) groups, each of G members except possibly the last, *)
(* whose concatenation is the input in ascending angle, equal angles in    *)
(* input order, with no segment lost or duplicated.                        *)
(***************************************************************************)
C11_GroupsPartitionSortedInput ==
    (call.fn = "create_groups_by_position" /\ call.done) =>
        LET n == Len(call.segments)
            g == call.group_size
            groups == call.result
            flat == Concat(groups)
        IN  /\ Len(groups) = (n + g - 1) \div g
            /\ \A k \in 1..Len(groups) :
                 IF k < Len(groups) THEN Len(groups[k]) = g
                 ELSE Len(groups[k]) \in 1..g
            /\ Len(flat) = n
            /\ \A i \in 1..n : \E j \in 1..n : flat[j] = call.segments[i]
            /\ \A i, j \in 1..n :
                 i < j =>
                    \/ flat[i].angle_deg < flat[j].angle_deg
                    \/ /\ flat[i].angle_deg = flat[j].angle_deg
                       /\ flat[i].panelId < flat[j].panelId

\* four segments out of angle order, two of them at the same angle, in
\* groups of three
C11_Witness ==
    /\ call.fn = "create_groups_by_position"
    /\ call.done
    /\ Len(call.segments) = 4
    /\ call.group_size = 3
    /\ Len(call.result) = 2
    /\ call.segments[1].angle_deg > call.segments[2].angle_deg
    /\ call.segments[2].angle_deg = call.segments[4].angle_deg


(***************************************************************************)
(* Reading the manual configuration, for the properties below.             *)
(***************************************************************************)
\* the indices of one manual group that address a segment of the list
InRangeIndices(group_indices, n) ==
    SelectSeq(group_indices, LAMBDA i : i >= 0 /\ i < n)

\* the layout-order segments at the in-range indices of one manual group
InRangeMembers(group_indices, segments) ==
    LET kept == InRangeIndices(group_indices, Len(segments))
    IN  [k \in 1..Len(kept) |-> segments[kept[k] + 1]]

\* the manual groups with out-of-range indices and empty groups dropped
DroppedOutOfRange(manual_groups, segments) ==
    SelectSeq([k \in 1..Len(manual_groups) |->
                  InRangeMembers(manual_groups[k], segments)],
              LAMBDA members : members # <<>>)

\* the ';'-separated pieces of a config string that are not blank
GroupPieces(config_str) ==
    SelectSeq(Split(Strip(config_str), ";"), LAMBDA p : Strip(p) # <<>>)

\* the ','-separated tokens of one piece
PieceTokens(piece) ==
    LET tokens == Split(Strip(piece), ",")
    IN  [i \in 1..Len(tokens) |-> Strip(tokens[i])]

(***************************************************************************)
(* C12: building the manual groups never raises; every index below 0 or    *)
(* at or above the number of segments is dropped, every member kept is the *)
(* layout-order segment at its index, and a group left empty is absent.    *)
(***************************************************************************)
C12_ManualGroupingDropsOutOfRange ==
    (/\ call.fn = "light.async_setup_entry"
     /\ call.create_groups
     /\ ManualConfigured(entry_options)) =>
        /\ call.setup.raises = "none"
        /\ call.setup.groups =
             DroppedOutOfRange(entry_options.manual_groups, call.segments)

(***************************************************************************)
(* C13: with a non-empty manual configuration the groups come from it      *)
(* alone and automatic grouping is not applied; automatic grouping is      *)
(* applied exactly when the manual configuration is absent or empty.       *)
(***************************************************************************)
C13_ManualOrAutomatic ==
    call.fn = "light.async_setup_entry" =>
        /\ ManualConfigured(entry_options) => ~call.setup.automatic
        /\ ~ManualConfigured(entry_options) => call.setup.automatic

(***************************************************************************)
(* C13 as amended: when group creation is enabled, a non-empty manual      *)
(* configuration is the only source of the groups, even if all of its      *)
(* groups are dropped, and automatic grouping is applied exactly when the  *)
(* manual configuration is absent or empty; when group creation is         *)
(* disabled no group is built in either way.                               *)
(***************************************************************************)
C13_ManualPrecedenceWhenGroupsEnabled ==
    call.fn = "light.async_setup_entry" =>
        LET manual_groups == entry_options.manual_groups
            groups == call.setup.groups
        IN  /\ call.setup.automatic <=>
                 (call.create_groups /\ ~ManualConfigured(entry_options))
            /\ ~call.create_groups => (~call.setup.built /\ groups = <<>>)
            /\ (call.create_groups /\ ManualConfigured(entry_options)) =>
                 /\ Len(groups) <= Len(manual_groups)
                 /\ \A k \in 1..Len(groups) :
                      \E j \in 1..Len(manual_groups) :
                         /\ Len(groups[k]) <= Len(manual_groups[j])
                         /\ \A m \in 1..Len(groups[k]) :
                              \E i \in 1..Len(manual_groups[j]) :
                                 /\ PyIndex(call.segments, manual_groups[j][i]).ok
                                 /\ manual_groups[j][i] < Len(call.segments)
                                 /\ groups[k][m] =
                                      call.segments[PyIndex(call.segments,
                                                            manual_groups[j][i]).at]
                 /\ (\A j \in 1..Len(manual_groups) :
                        InRangeMembers(manual_groups[j], call.segments) = <<>>
                        /\ \A i \in 1..Len(manual_groups[j]) :
                              manual_groups[j][i] >= 0)
                    => groups = <<>>

\* group creation is on and the only manual group holds an index past the
\* end: no group is built, although automatic grouping would build some
C13_Witness ==
    /\ call.fn = "light.async_setup_entry"
    /\ call.create_groups
    /\ entry_options.manual_groups = <<<<5>>>>
    /\ call.setup.raises = "none"
    /\ call.setup.groups = <<>>
    /\ create_groups_by_position(call.segments, DEFAULT_GROUP_SIZE) # <<>>

(***************************************************************************)
(* C14: a submitted group string is split on ';' into groups (blank ones   *)
(* skipped) and on ',' into integers, whitespace around them ignored;      *)
(* "0,1,2; 3,4,5" gives [[0,1,2],[3,4,5]] and "" gives no group; a string  *)
(* with a group holding a token that is not an integer, such as            *)
(* "0,1,; abc", is rejected, and a rejected submission leaves the stored   *)
(* options as they were.                                                   *)
(***************************************************************************)
C14_GroupConfigParsedOrRejected ==
    /\ [](( /\ call.fn = "async_step_groups"
            /\ call.done
            /\ call.user_input.given) =>
          LET config_str == call.user_input.group_config
              pieces == GroupPieces(config_str)
              rejected == \E k \in 1..Len(pieces) :
                             \E i \in 1..Len(PieceTokens(pieces[k])) :
                                ~IntOf(PieceTokens(pieces[k])[i]).ok
              groups == entry_options.manual_groups
          IN  /\ (call.errors = "invalid_group_config") <=> rejected
              /\ (call.result = "create_entry") <=> ~rejected
              /\ ~rejected =>
                   /\ entry_options.given
                   /\ Len(groups) = Len(pieces)
                   /\ \A k \in 1..Len(pieces) :
                        /\ Len(groups[k]) = Len(PieceTokens(pieces[k]))
                        /\ \A i \in 1..Len(groups[k]) :
                             groups[k][i] = IntOf(PieceTokens(pieces[k])[i]).value
              /\ config_str = <<"0", ",", "1", ",", "2", ";", " ", "3", ",", "4", ",", "5">>
                   => groups = <<<<0, 1, 2>>, <<3, 4, 5>>>>
              /\ config_str = <<>> => (call.result = "create_entry" /\ groups = <<>>)
              /\ config_str = <<"0", ",", "1", ",", ";", " ", "a", "b", "c">>
                   => call.errors = "invalid_group_config")
    /\ [][( /\ call'.fn = "async_step_groups"
            /\ call'.done
            /\ ~call.done
            /\ call'.errors = "invalid_group_config") =>
              entry_options' = entry_options]_vars

\* "0,1,; abc" is rejected on an entry that has manual groups stored
C14_Witness ==
    /\ call.fn = "async_step_groups"
    /\ call.done
    /\ call.user_input.group_config = <<"0", ",", "1", ",", ";", " ", "a", "b", "c">>
    /\ call.errors = "invalid_group_config"
    /\ entry_options.manual_groups = <<<<0, 1, 2>>, <<3, 4, 5>>>>


(***************************************************************************)
(* C15: each channel sent for a state that is on is the stored channel     *)
(* times brightness / 255 rounded to the nearest integer, for R, G and B   *)
(* independently.  (c * b / 255 is never halfway between two integers.)    *)
(***************************************************************************)
C15_ScaledByRounding ==
    (call.fn = "visible_color" /\ call.done) =>
        \A k \in 1..3 :
            call.result[k] =
                (2 * call.state.rgb_color[k] * call.state.brightness + 255) \div 510

(***************************************************************************)
(* C16: scaling is the identity at brightness 255, never decreases when    *)
(* the brightness grows with the channel fixed, and gives a value between  *)
(* 0 and the channel.                                                      *)
(***************************************************************************)
C16_ScaleIdentityMonotoneBounded ==
    (call.fn = "visible_color" /\ call.done) =>
        /\ call.state.brightness = 255 => call.result = call.state.rgb_color
        /\ \A k \in 1..3 : call.result[k] \in 0..call.state.rgb_color[k]
        /\ call.state.brightness < 255 =>
             \A k \in 1..3 :
                call.result[k] <=
                    VisibleColor([call.state EXCEPT
                                     !.brightness = call.state.brightness + 1])[k]

\* channel 51 at brightness 155: the double product falls below 31
C16_Witness ==
    /\ call.fn = "visible_color"
    /\ call.done
    /\ call.state.rgb_color[1] = 51
    /\ call.state.brightness = 155
    /\ call.result[1] = 30


(***************************************************************************)
(* C17: a panel or group that is stored off is sent as 0,0,0 whatever      *)
(* colour and brightness are stored for it: the target of a turn_off and   *)
(* every preserved panel of a per-panel snapshot that is stored off, in    *)
(* the written payload and in the datagram.                                *)
(***************************************************************************)
C17_OffEncodesBlack ==
    /\ last.kind = "panel" =>
         \A w \in 1..Len(last.http) :
            \A id \in LayoutIds :
               ~SEGMENT_STATES[id].is_on =>
                  ColorIn(last.http[w].animData, id) = <<0, 0, 0>>
    /\ (last.kind = "group" /\ ~GROUP_STATES[last.target].is_on) =>
         /\ \A i \in 1..Len(last.panel_colors) :
               last.panel_colors[i][2] = <<0, 0, 0>>
         /\ \A w \in 1..Len(last.http) :
               \A k \in DOMAIN AnimEntries(last.http[w].animData) :
                  /\ AnimEntries(last.http[w].animData)[k][3] = 0
                  /\ AnimEntries(last.http[w].animData)[k][4] = 0
                  /\ AnimEntries(last.http[w].animData)[k][5] = 0
         /\ \A u \in 1..Len(last.udp) :
               \A k \in 0..(Len(last.panel_colors) - 1) :
                  /\ last.udp[u].packet[2 + 8 * k + 3] = 0
                  /\ last.udp[u].packet[2 + 8 * k + 4] = 0
                  /\ last.udp[u].packet[2 + 8 * k + 5] = 0

\* a panel is turned off while a colour other than white and a reduced
\* brightness are stored for it
C17_Witness ==
    /\ last.kind = "panel"
    /\ ~last.turn_on
    /\ Len(last.http) = 1
    /\ SEGMENT_STATES[last.target].rgb_color # <<255, 255, 255>>
    /\ SEGMENT_STATES[last.target].brightness < 255


(***************************************************************************)
(* C18: the streaming frame of a mapping of N panels (ids 0..65535,        *)
(* channels 0..255) is 2 + 8 * N bytes: the count in two bytes, then per   *)
(* panel the id in two bytes, R, G, B, a byte 0 and the transition in two  *)
(* bytes, most significant byte first; reading the frame back gives the    *)
(* count, the ids and the colours of the mapping.                          *)
(***************************************************************************)
C18_FrameRoundTrip ==
    (call.fn = "udp_packet" /\ call.done) =>
        LET n == Len(call.panel_colors)
            frame == call.result.bytes
        IN  /\ call.result.ok
            /\ Len(frame) = 2 + 8 * n
            /\ \A i \in 1..Len(frame) : frame[i] \in 0..255
            /\ frame[1] * 256 + frame[2] = n
            /\ \A k \in 1..n :
                 LET at == 2 + 8 * (k - 1)
                 IN  /\ frame[at + 1] * 256 + frame[at + 2] = call.panel_colors[k][1]
                     /\ <<frame[at + 3], frame[at + 4], frame[at + 5]>>
                          = call.panel_colors[k][2]
                     /\ frame[at + 6] = 0
                     /\ frame[at + 7] * 256 + frame[at + 8]
                          = IF call.smooth THEN 2 ELSE 0

\* a frame of three panels, ids 65535 and 256 among them
C18_Witness ==
    /\ call.fn = "udp_packet"
    /\ call.done
    /\ call.smooth
    /\ Len(call.panel_colors) = 3
    /\ call.panel_colors[1][1] = 65535
    /\ call.panel_colors[2][1] = 256
    /\ Len(call.result.bytes) = 26


(***************************************************************************)
(* C19: every custom-animation payload written, by the batch encoder or    *)
(* by the per-panel snapshot, is a count N followed by exactly N entries   *)
(* of seven numbers, id 1 r g b 0 tenths: the count is the number of       *)
(* entries, no panel id is listed twice, the frame count is 1 and the      *)
(* white channel is 0.                                                     *)
(***************************************************************************)
C19_PayloadWellFormed ==
    \A w \in 1..Len(last.http) :
        LET anim == last.http[w].animData
        IN  /\ Len(anim) >= 1
            /\ ListsEntries(anim, anim[1])
            /\ \A k \in DOMAIN AnimEntries(anim) :
                 /\ ListedOnce(anim, AnimEntries(anim)[k][1])
                 /\ AnimEntries(anim)[k][2] = 1
                 /\ AnimEntries(anim)[k][6] = 0

\* the bulk service wrote a payload of two panels
C19_Witness ==
    /\ last.kind = "bulk"
    /\ Len(last.http) = 1
    /\ last.http[1].animData[1] = 2
    /\ Len(last.http[1].animData) = 15


(***************************************************************************)
(* C20: a command changes only the stored fields it provides: turn_off     *)
(* changes is_on alone, so the stored colour and brightness are there for  *)
(* a later turn_on without arguments; turn_on sets is_on, sets brightness  *)
(* and colour when given and leaves each of them alone when not given.     *)
(***************************************************************************)
StoredOf(kind, target) ==
    IF kind = "panel" THEN SEGMENT_STATES[target] ELSE GROUP_STATES[target]

C20_OnlyProvidedFieldsChange ==
    [][(last'.kind \in {"panel", "group"} /\ ops' = ops + 1) =>
          /\ ~last'.turn_on =>
                /\ ~StoredTarget'.is_on
                /\ StoredTarget'.brightness =
                     StoredOf(last'.kind, last'.target).brightness
                /\ StoredTarget'.rgb_color =
                     StoredOf(last'.kind, last'.target).rgb_color
          /\ last'.turn_on =>
                /\ StoredTarget'.is_on
                /\ StoredTarget'.brightness =
                     IF "brightness" \in last'.kwargs.given
                     THEN last'.kwargs.brightness
                     ELSE StoredOf(last'.kind, last'.target).brightness
                /\ StoredTarget'.rgb_color =
                     IF "rgb_color" \in last'.kwargs.given
                     THEN last'.kwargs.rgb_color
                     ELSE StoredOf(last'.kind, last'.target).rgb_color]_vars

\* a group is turned off and keeps the colour and brightness stored for it
C20_Witness ==
    /\ last.kind = "group"
    /\ ~last.turn_on
    /\ ~GROUP_STATES[last.target].is_on
    /\ GROUP_STATES[last.target].rgb_color = <<51, 102, 204>>
    /\ GROUP_STATES[last.target].brightness = 155


(***************************************************************************)
(* C21: no blocking control-plane call runs on the event-loop thread: for  *)
(* a panel or group turn_on / turn_off (streaming enabled, disabled or     *)
(* falling back) and for the bulk service, every control-plane write is    *)
(* made from an executor thread.                                           *)
(***************************************************************************)
C21_NoBlockingCallOnEventLoop ==
    last.kind \in {"panel", "group", "bulk"} =>
        \A w \in 1..Len(last.http) : last.http[w].thread = "executor"

(***************************************************************************)
(* Reading the suspended coroutines, for the properties below.             *)
(***************************************************************************)
\* the colour a payload lists for a panel, <<>> unless it lists it once
ListedColor(anim, id) == IF ListedOnce(anim, id) THEN ColorIn(anim, id) ELSE <<>>

\* the command of a carries, for the panel of b, the colour that the write
\* of b replaced
CarriesStale(a, b) ==
    /\ a.panel_id # b.panel_id
    /\ b.before # b.after
    /\ ListedColor(a.anim, b.panel_id) = b.before

\* the per-panel commands a caller can issue on a segment list
PanelCommands(all_segments) ==
    {[panel_id |-> all_segments[i].panelId, turn_on |-> turn_on, kwargs |-> kwargs] :
        i \in 1..Len(all_segments), turn_on \in BOOLEAN,
        kwargs \in TurnOnKwargs \cup TurnOffKwargs}

(***************************************************************************)
(* C22: two per-panel commands on different panels, handled concurrently,  *)
(* can each carry a stale colour of the other: there are two commands and  *)
(* an interleaving of their handlers after which the command of A carries  *)
(* the colour B showed before its update and the command of B the colour A *)
(* showed before its update.  (The payloads are fixed once both handlers   *)
(* have reached their await, so an interleaving is an order of the two     *)
(* runs up to the await; both orders are covered by exchanging A and B.)   *)
(***************************************************************************)
C22_BothSnapshotsCanBeStale ==
    loop.tasks = <<>> =>
        \E a, b \in PanelCommands(coordinator.data) :
            /\ a.kwargs \in LoopKwargs(a.turn_on)
            /\ b.kwargs \in LoopKwargs(b.turn_on)
            /\ LET first == PanelHandlerBuilt(SEGMENT_STATES, coordinator.data,
                                              a.panel_id, a.turn_on, a.kwargs)
                   second == PanelHandlerBuilt(first.store, coordinator.data,
                                               b.panel_id, b.turn_on, b.kwargs)
               IN  /\ CarriesStale(first.task, second.task)
                   /\ CarriesStale(second.task, first.task)

(***************************************************************************)
(* C22 as amended: of two per-panel commands on different panels handled   *)
(* concurrently, only the one whose handler ran first can carry a stale    *)
(* colour of the other: it carries the colour the other panel showed       *)
(* before its update, while the command built second carries the colour    *)
(* the first one commanded.  No interleaving makes both stale.             *)
(***************************************************************************)
C22_OnlyFirstSnapshotStale ==
    \A i, j \in 1..Len(loop.tasks) :
        LET a == loop.tasks[i]
            b == loop.tasks[j]
        IN  (/\ i < j
             /\ a.panel_id # b.panel_id
             /\ \A k \in (i + 1)..(j - 1) :
                   loop.tasks[k].panel_id \notin {a.panel_id, b.panel_id}) =>
                /\ ListedColor(b.anim, a.panel_id) = a.after
                /\ ListedColor(a.anim, b.panel_id) = b.before
                /\ ~(CarriesStale(a, b) /\ CarriesStale(b, a))

\* two commands are in the executor at once; each changed the colour of its
\* panel, and the first carries the colour the second replaced
C22_Witness ==
    /\ Len(loop.tasks) = 2
    /\ loop.tasks[1].pc = "executor"
    /\ loop.tasks[2].pc = "executor"
    /\ loop.tasks[1].before # loop.tasks[1].after
    /\ CarriesStale(loop.tasks[1], loop.tasks[2])
    /\ ListedColor(loop.tasks[2].anim, loop.tasks[1].panel_id) = loop.tasks[1].after

(***************************************************************************)
(* C23: the transition is passed through unchanged: for a panel or group   *)
(* turn_on / turn_off with a transition of t seconds and for the bulk      *)
(* service with transition t, every panel entry of every command that      *)
(* reaches the wire, written payload or datagram, fallback included,       *)
(* carries int(10 * t) tenths of a second.                                 *)
(***************************************************************************)
C23_TransitionPassedThrough ==
    last.kind \in {"panel", "group", "bulk"} =>
        LET tenths == TransitionTime(TransitionOf(last.kwargs))
        IN  /\ \A w \in 1..Len(last.http) :
                 \A k \in DOMAIN AnimEntries(last.http[w].animData) :
                    AnimEntries(last.http[w].animData)[k][7] = tenths
            /\ \A u \in 1..Len(last.udp) :
                 \A k \in 0..(Len(last.panel_colors) - 1) :
                    last.udp[u].packet[2 + 8 * k + 7] * 256
                        + last.udp[u].packet[2 + 8 * k + 8] = tenths

(***************************************************************************)
(* C24: the segment list of a coordinator is fetched once: a refresh of a  *)
(* coordinator that holds segments reads the global state only, issues no  *)
(* layout request and returns the list it holds, whatever the device would *)
(* report now; a refresh whose segment fetch fails caches nothing, and a   *)
(* refresh of a coordinator that holds no segments requests the layout     *)
(* again (once its state read, which comes first, has returned).           *)
(***************************************************************************)
C24_SegmentsFetchedOnce ==
    [][(call'.fn = "_async_update_data" /\ call'.refreshes = call.refreshes + 1) =>
          LET before == call.coordinator
              after == call'.coordinator
              state_failed == ReadFails(call'.state_outcome)
              fetch_failed == ReadFails(call'.layout_outcome)
          IN  /\ before.has_segments =>
                    /\ after.has_segments
                    /\ after.segments = before.segments
                    /\ call'.reads = <<"state">>
                    /\ ~state_failed =>
                          (after.last_update_success /\ after.data = before.segments)
              /\ ~before.has_segments =>
                    /\ ~state_failed => call'.reads = <<"state", "layout">>
                    /\ (state_failed \/ fetch_failed) =>
                          /\ ~after.has_segments
                          /\ after.segments = <<>>
                          /\ ~after.last_update_success
                    /\ (~state_failed /\ ~fetch_failed) =>
                          /\ after.has_segments
                          /\ after.segments = GetAllSegments(call'.position_data)
                          /\ after.data = after.segments]_vars

\* the first fetch failed, the second refresh fetched the segments, and the
\* third returned them although the device would now report another layout
C24_Witness ==
    /\ call.fn = "_async_update_data"
    /\ call.refreshes = 3
    /\ call.fetch_failures = 1
    /\ call.coordinator.has_segments
    /\ call.coordinator.last_update_success
    /\ call.reads = <<"state">>
    /\ call.coordinator.data # GetAllSegments(call.position_data)

(***************************************************************************)
(* C25: the bulk service, given a mapping of segment index to colour and a *)
(* transition, makes exactly one reliable write that holds exactly the     *)
(* panels at the in-range indices of the layout-order segment list, each   *)
(* at the colour given for it; an index at or past the number of segments  *)
(* is skipped, and no integer index makes the call raise, negative ones    *)
(* and a mapping with no index in range included.                          *)
(***************************************************************************)
C25_BulkOneWriteInRangeNeverRaises ==
    (call.fn = "handle_set_multiple_segments" /\ call.done) =>
        LET n == Len(call.segments)
            in_range == SelectSeq(call.items, LAMBDA it : it[1] >= 0 /\ it[1] < n)
            expected == [k \in 1..Len(in_range) |->
                            <<call.segments[in_range[k][1] + 1].panelId,
                              in_range[k][2]>>]
        IN  /\ call.result.raises = "none"
            /\ call.result.udp = <<>>
            /\ Len(call.result.http) = 1
            /\ EncodesMapping(call.result.http[1].animData, expected)

(***************************************************************************)
(* C26: a command changes the stored state of its own identity only: a     *)
(* panel turn_on / turn_off changes no entry of the panel store but that   *)
(* panel's and no group entry; a group turn_on / turn_off changes no entry *)
(* of the group store but that group's and no panel entry, not even of its *)
(* members; the bulk service changes neither store.  No command adds or    *)
(* removes a key.                                                          *)
(***************************************************************************)
C26_CommandsChangeOwnEntryOnly ==
    [][(ops' = ops + 1) =>
          /\ DOMAIN SEGMENT_STATES' = DOMAIN SEGMENT_STATES
          /\ DOMAIN GROUP_STATES' = DOMAIN GROUP_STATES
          /\ last'.kind = "panel" =>
                /\ GROUP_STATES' = GROUP_STATES
                /\ \A id \in DOMAIN SEGMENT_STATES \ {last'.target} :
                      SEGMENT_STATES'[id] = SEGMENT_STATES[id]
          /\ last'.kind = "group" =>
                /\ SEGMENT_STATES' = SEGMENT_STATES
                /\ \A index \in DOMAIN GROUP_STATES \ {last'.target} :
                      GROUP_STATES'[index] = GROUP_STATES[index]
          /\ last'.kind = "bulk" =>
                /\ SEGMENT_STATES' = SEGMENT_STATES
                /\ GROUP_STATES' = GROUP_STATES]_vars

\* a group was turned off after one of its members had been dimmed: the
\* member's entry is still on and dimmed, and the other group is untouched
C26_Witness ==
    /\ last.kind = "group"
    /\ ~last.turn_on
    /\ ~GROUP_STATES[last.target].is_on
    /\ \E i \in 1..Len(last.panel_colors) :
          /\ SEGMENT_STATES[last.panel_colors[i][1]].is_on
          /\ SEGMENT_STATES[last.panel_colors[i][1]].brightness = 155
    /\ \E index \in DOMAIN GROUP_STATES \ {last.target} :
          GROUP_STATES[index] = DefaultState

(***************************************************************************)
(* C27: no send changes the streaming flag or the socket of the session:   *)
(* in a session whose negotiation succeeded a failed datagram falls back   *)
(* to one reliable write for that update only, and every later send hands  *)
(* its frame to the socket first again, however many sends failed before;  *)
(* only enable_external_control writes the flag.                           *)
(***************************************************************************)
C27_SendLeavesStreamingFlag ==
    [][(call'.fn = "set_multiple_panels_udp" /\ call'.sends = call.sends + 1) =>
          LET usable == StreamingUsable(call.api.external_control_enabled,
                                        call.api.udp_socket)
              frame == UdpPacket(call'.panel_colors, call'.smooth)
              sent == call'.result
          IN  /\ call'.api = call.api
              /\ (usable /\ frame.ok) =>
                    /\ Len(sent.udp) = 1
                    /\ sent.udp[1].packet = frame.bytes
                    /\ sent.udp[1].outcome = "sent" => sent.http = <<>>
                    /\ sent.udp[1].outcome # "sent" => Len(sent.http) = 1
              /\ ~usable => (sent.udp = <<>> /\ Len(sent.http) = 1)]_vars

\* two sends of an enabled session fell back, and the third put its frame
\* on the socket
C27_Witness ==
    /\ call.fn = "set_multiple_panels_udp"
    /\ call.api.external_control_enabled
    /\ call.sends = 3
    /\ call.send_failures = 2
    /\ Len(call.result.udp) = 1
    /\ call.result.udp[1].outcome = "sent"
    /\ call.result.http = <<>>

(***************************************************************************)
(* C29: a streaming frame is never sent truncated or with a wrapped value: *)
(* when a panel id of the mapping is outside 0..65535 or a colour channel  *)
(* is outside 0..255, the send puts no datagram on the socket and issues   *)
(* one control-plane command that lists the whole mapping, values as       *)
(* given; a datagram that is sent is the complete frame of the mapping.    *)
(***************************************************************************)
C29_UnencodableFrameNotSent ==
    (call.fn = "set_multiple_panels_udp" /\ call.done) =>
        LET panel_colors == call.panel_colors
            n == Len(panel_colors)
            fits == \A i \in 1..n :
                       /\ panel_colors[i][1] \in 0..MaxU16
                       /\ \A c \in 1..3 : panel_colors[i][2][c] \in 0..MaxU8
            sent == call.result
        IN  /\ ~fits =>
                /\ sent.udp = <<>>
                /\ Len(sent.http) = 1
                /\ EncodesMapping(sent.http[1].animData, panel_colors)
                /\ sent.raises = "none"
            /\ \A d \in 1..Len(sent.udp) :
                LET frame == sent.udp[d].packet
                IN  /\ Len(frame) = 2 + 8 * n
                    /\ \A i \in 1..Len(frame) : frame[i] \in 0..MaxU8
                    /\ frame[1] * 256 + frame[2] = n
                    /\ \A k \in 1..n :
                         LET at == 2 + 8 * (k - 1)
                         IN  /\ frame[at + 1] * 256 + frame[at + 2]
                                  = panel_colors[k][1]
                             /\ <<frame[at + 3], frame[at + 4], frame[at + 5]>>
                                  = panel_colors[k][2]

\* a negotiated session is handed a mapping whose first panel fits the frame
\* and whose second has a channel of 256: nothing is sent by datagram
C29_Witness ==
    /\ call.fn = "set_multiple_panels_udp"
    /\ call.done
    /\ call.api.external_control_enabled
    /\ call.api.udp_socket
    /\ Len(call.panel_colors) = 2
    /\ call.panel_colors[1][1] = MaxU16
    /\ call.panel_colors[2][2][1] = MaxU8 + 1
    /\ call.result.udp = <<>>
    /\ Len(call.result.http) = 1

\* every coroutine has resumed and the device answered every write with success
AllWritesSucceeded ==
    /\ Len(loop.tasks) >= 2
    /\ \A t \in 1..Len(loop.tasks) :
          loop.tasks[t].pc = "done" /\ loop.tasks[t].delivered

\* the command the device received last
LastReceived == loop.tasks[loop.received[Len(loop.received)]]

\* what the device displays after a command is, panel by panel, the
\* brightness-scaled colour of the store
DisplaysStore(anim) ==
    \A id \in LayoutIds :
        ListedColor(anim, id) = VisibleColor(StateOf(SEGMENT_STATES, id))

EntriesKept(before, after, keys) ==
    /\ DOMAIN after = DOMAIN before \cup keys
    /\ \A k \in DOMAIN before : after[k] = before[k]
    /\ \A k \in DOMAIN after \ DOMAIN before : after[k] = DefaultState

(***************************************************************************)
(* C30: commanded state survives entity re-creation: when the panel and    *)
(* group entities are created over a store that already holds entries,     *)
(* after an unload and reload or with groups that use an index again,      *)
(* every existing entry is kept as it is and the default on/255/white is   *)
(* written only under the keys the store did not hold; an unload changes   *)
(* no store, and no step removes an entry.                                 *)
(***************************************************************************)
C30_StoreSurvivesReload ==
    [][/\ DOMAIN SEGMENT_STATES \subseteq DOMAIN SEGMENT_STATES'
       /\ DOMAIN GROUP_STATES \subseteq DOMAIN GROUP_STATES'
       /\ (session' = session + 1 /\ setup' = "ready") =>
             /\ EntriesKept(SEGMENT_STATES, SEGMENT_STATES',
                            {coordinator'.data[i].panelId :
                                i \in 1..Len(coordinator'.data)})
             /\ EntriesKept(GROUP_STATES, GROUP_STATES',
                            {g - 1 : g \in 1..Len(group_panel_ids')})
       /\ (setup = "ready" /\ setup' = "idle") =>
             UNCHANGED <<SEGMENT_STATES, GROUP_STATES>>]_vars

\* the entry was loaded again and unloaded again: the panel and the group
\* commanded during the earlier load hold what the commands left, next to
\* a panel that got its default at this load
C30_Witness ==
    /\ session = 1
    /\ setup = "idle"
    /\ last.kind = "unload"
    /\ \E id \in PanelIds(device_layout) :
          /\ SEGMENT_STATES[id] = LeftByCommands
          /\ \E index \in 1..Len(group_panel_ids) :
                \E k \in 1..Len(group_panel_ids[index]) :
                    group_panel_ids[index][k] = id
    /\ GROUP_STATES[0] = LeftByCommands
    /\ Len(group_panel_ids) >= 1
    /\ \E id \in PanelIds(device_layout) : SEGMENT_STATES[id] = DefaultState
    /\ \E id \in DOMAIN SEGMENT_STATES :
          id \notin PanelIds(device_layout) /\ SEGMENT_STATES[id] = DefaultState

====
